---- MODULE Spec2Model ----
(***************************************************************************)
(* AES block cipher (FIPS-197) and its ECB driver, as implemented in       *)
(* impl/cryp/aes/aes.py, cryp/aes/constants.py and cryp/aes/ecb.py.        *)
(*                                                                         *)
(* Python values are represented as follows: a bytes object or a list of   *)
(* ints is a sequence of numbers in 0..255, a state or key schedule is a   *)
(* sequence of such sequences.  Python index i is TLA+ index i + 1.  A     *)
(* call that may raise returns a record [err, val]: err = "none" and the   *)
(* returned value, or the name of the exception raised.                    *)
(***************************************************************************)
EXTENDS Integers, Sequences, FiniteSets, TLC

(***************************************************************************)
(* cryp/aes/constants.py                                                   *)
(***************************************************************************)
AES_S_BOX ==
  <<
     99, 124, 119, 123, 242, 107, 111, 197,  48,   1, 103,  43, 254, 215, 171, 118,
    202, 130, 201, 125, 250,  89,  71, 240, 173, 212, 162, 175, 156, 164, 114, 192,
    183, 253, 147,  38,  54,  63, 247, 204,  52, 165, 229, 241, 113, 216,  49,  21,
      4, 199,  35, 195,  24, 150,   5, 154,   7,  18, 128, 226, 235,  39, 178, 117,
      9, 131,  44,  26,  27, 110,  90, 160,  82,  59, 214, 179,  41, 227,  47, 132,
     83, 209,   0, 237,  32, 252, 177,  91, 106, 203, 190,  57,  74,  76,  88, 207,
    208, 239, 170, 251,  67,  77,  51, 133,  69, 249,   2, 127,  80,  60, 159, 168,
     81, 163,  64, 143, 146, 157,  56, 245, 188, 182, 218,  33,  16, 255, 243, 210,
    205,  12,  19, 236,  95, 151,  68,  23, 196, 167, 126,  61, 100,  93,  25, 115,
     96, 129,  79, 220,  34,  42, 144, 136,  70, 238, 184,  20, 222,  94,  11, 219,
    224,  50,  58,  10,  73,   6,  36,  92, 194, 211, 172,  98, 145, 149, 228, 121,
    231, 200,  55, 109, 141, 213,  78, 169, 108,  86, 244, 234, 101, 122, 174,   8,
    186, 120,  37,  46,  28, 166, 180, 198, 232, 221, 116,  31,  75, 189, 139, 138,
    112,  62, 181, 102,  72,   3, 246,  14,  97,  53,  87, 185, 134, 193,  29, 158,
    225, 248, 152,  17, 105, 217, 142, 148, 155,  30, 135, 233, 206,  85,  40, 223,
    140, 161, 137,  13, 191, 230,  66, 104,  65, 153,  45,  15, 176,  84, 187,  22
  >>

RCON_TABLE ==
  <<
      1,   2,   4,   8,  16,  32,  64, 128,  27,  54
  >>

INV_S_BOX ==
  <<
     82,   9, 106, 213,  48,  54, 165,  56, 191,  64, 163, 158, 129, 243, 215, 251,
    124, 227,  57, 130, 155,  47, 255, 135,  52, 142,  67,  68, 196, 222, 233, 203,
     84, 123, 148,  50, 166, 194,  35,  61, 238,  76, 149,  11,  66, 250, 195,  78,
      8,  46, 161, 102,  40, 217,  36, 178, 118,  91, 162,  73, 109, 139, 209,  37,
    114, 248, 246, 100, 134, 104, 152,  22, 212, 164,  92, 204,  93, 101, 182, 146,
    108, 112,  72,  80, 253, 237, 185, 218,  94,  21,  70,  87, 167, 141, 157, 132,
    144, 216, 171,   0, 140, 188, 211,  10, 247, 228,  88,   5, 184, 179,  69,   6,
    208,  44,  30, 143, 202,  63,  15,   2, 193, 175, 189,   3,   1,  19, 138, 107,
     58, 145,  17,  65,  79, 103, 220, 234, 151, 242, 207, 206, 240, 180, 230, 115,
    150, 172, 116,  34, 231, 173,  53, 133, 226, 249,  55, 232,  28, 117, 223, 110,
     71, 241,  26, 113,  29,  41, 197, 137, 111, 183,  98,  14, 170,  24, 190,  27,
    252,  86,  62,  75, 198, 210, 121,  32, 154, 219, 192, 254, 120, 205,  90, 244,
     31, 221, 168,  51, 136,   7, 199,  49, 177,  18,  16,  89,  39, 128, 236,  95,
     96,  81, 127, 169,  25, 181,  74,  13,  45, 229, 122, 159, 147, 201, 156, 239,
    160, 224,  59,  77, 174,  42, 245, 176, 200, 235, 187,  60, 131,  83, 153,  97,
     23,  43,   4, 126, 186, 119, 214,  38, 225, 105,  20,  99,  85,  33,  12, 125
  >>

AES_BLOCK_SIZE == 16

(***************************************************************************)
(* Python primitives used by the code.                                     *)
(***************************************************************************)
Min(a, b) == IF a <= b THEN a ELSE b

\* Python's a ^ b on non-negative ints.
RECURSIVE Xor(_, _)
Xor(a, b) ==
  IF a = 0 THEN b
  ELSE IF b = 0 THEN a
  ELSE 2 * Xor(a \div 2, b \div 2) + ((a + b) % 2)

\* return v / raise e
Ok(v) == [err |-> "none", val |-> v]
Raise(e) == [err |-> e, val |-> <<>>]

\* seq[i] for a Python int i: negative indices count from the end, anything
\* outside -len..len-1 raises IndexError.
PyIndex(seq, i) ==
  IF 0 <= i /\ i < Len(seq) THEN Ok(seq[i + 1])
  ELSE IF i < 0 /\ 0 - Len(seq) <= i THEN Ok(seq[Len(seq) + i + 1])
  ELSE Raise("IndexError")

\* seq[lo:hi] for 0 <= lo <= hi: the slice is clipped to the sequence.
PySlice(seq, lo, hi) ==
  IF lo >= Len(seq) THEN <<>> ELSE SubSeq(seq, lo + 1, Min(hi, Len(seq)))

(***************************************************************************)
(* impl/cryp/aes/aes.py: field arithmetic and round transformations.       *)
(***************************************************************************)
\* Mutant: the shifted byte is cut to 8 bits without the reduction.
xtime_without_reduction(a) == (2 * a) % 256

xtime(a) ==
  IF (a \div 128) % 2 = 1 THEN Xor(2 * a, 27) % 256 ELSE 2 * a

\* Mutant: the last assignment reads the updated col[0] instead of c_0.
mix_column_without_c_0(col) ==
  LET all_xor == Xor(Xor(Xor(col[1], col[2]), col[3]), col[4])
      col_a == [col EXCEPT ![1] = Xor(col[1], Xor(all_xor, xtime(Xor(col[1], col[2]))))]
      col_b == [col_a EXCEPT ![2] = Xor(col_a[2], Xor(all_xor, xtime(Xor(col_a[2], col_a[3]))))]
      col_c == [col_b EXCEPT ![3] = Xor(col_b[3], Xor(all_xor, xtime(Xor(col_b[3], col_b[4]))))]
  IN  [col_c EXCEPT ![4] = Xor(col_c[4], Xor(all_xor, xtime(Xor(col_c[1], col_c[4]))))]

\* The four assignments run in order on the same list; c_0 keeps the
\* original col[0] for the last one.
mix_column(col) ==
  LET c_0 == col[1]
      all_xor == Xor(Xor(Xor(col[1], col[2]), col[3]), col[4])
      col_a == [col EXCEPT ![1] = Xor(col[1], Xor(all_xor, xtime(Xor(col[1], col[2]))))]
      col_b == [col_a EXCEPT ![2] = Xor(col_a[2], Xor(all_xor, xtime(Xor(col_a[2], col_a[3]))))]
      col_c == [col_b EXCEPT ![3] = Xor(col_b[3], Xor(all_xor, xtime(Xor(col_b[3], col_b[4]))))]
  IN  [col_c EXCEPT ![4] = Xor(col_c[4], Xor(all_xor, xtime(Xor(c_0, col_c[4]))))]

mix_columns(state) == [i \in 1..Len(state) |-> mix_column(state[i])]

\* Mutant: the first tuple assignment done one target at a time, so that
\* state[3][1] reads the state[0][1] that was just written.
shift_rows_writing_one_by_one(state) ==
  IF Len(state) < 4 THEN Raise("IndexError")
  ELSE
    LET s1 == [state EXCEPT ![1][2] = state[2][2], ![2][2] = state[3][2],
                            ![3][2] = state[4][2], ![4][2] = state[2][2]]
        s2 == [s1 EXCEPT ![1][3] = s1[3][3], ![2][3] = s1[4][3],
                         ![3][3] = s1[1][3], ![4][3] = s1[2][3]]
        s3 == [s2 EXCEPT ![1][4] = s2[4][4], ![2][4] = s2[1][4],
                         ![3][4] = s2[2][4], ![4][4] = s2[3][4]]
    IN  Ok(s3)

\* Three tuple assignments; each right-hand side is read before any write.
\* Reading state[3][..] raises IndexError on a state of fewer than 4 lists.
shift_rows(state) ==
  IF Len(state) < 4 THEN Raise("IndexError")
  ELSE
    LET s1 == [state EXCEPT ![1][2] = state[2][2], ![2][2] = state[3][2],
                            ![3][2] = state[4][2], ![4][2] = state[1][2]]
        s2 == [s1 EXCEPT ![1][3] = s1[3][3], ![2][3] = s1[4][3],
                         ![3][3] = s1[1][3], ![4][3] = s1[2][3]]
        s3 == [s2 EXCEPT ![1][4] = s2[4][4], ![2][4] = s2[1][4],
                         ![3][4] = s2[2][4], ![4][4] = s2[3][4]]
    IN  Ok(s3)

sub_bytes(state) ==
  [row \in 1..Len(state) |->
     [column \in 1..Len(state[1]) |-> AES_S_BOX[state[row][column] + 1]]]

\* round_key[row] raises IndexError when the state has more lists than the
\* round key has words.
add_round_key(state, key_schedule, round) ==
  LET rk == PyIndex(key_schedule, round) IN
  IF rk.err # "none" THEN Raise(rk.err)
  ELSE IF Len(state) > Len(rk.val) THEN Raise("IndexError")
  ELSE Ok([row \in 1..Len(state) |->
             [column \in 1..Len(state[1]) |->
                Xor(state[row][column], rk.val[row][column])]])

\* zip stops at the shorter input.
xor_bytes(input_a, input_b) ==
  [i \in 1..Min(Len(input_a), Len(input_b)) |-> Xor(input_a[i], input_b[i])]

sub_word(word) == [i \in 1..Len(word) |-> AES_S_BOX[word[i] + 1]]

rot_word(word) == PySlice(word, 1, Len(word)) \o PySlice(word, 0, 1)

rcon(value) ==
  LET entry == PyIndex(RCON_TABLE, value - 1) IN
  IF entry.err # "none" THEN Raise(entry.err)
  ELSE Ok(<<entry.val, 0, 0, 0>>)

\* The dict {128: 10, 192: 12, 256: 14}[key_bit_length].
number_rounds(key_bit_length) ==
  IF key_bit_length = 128 THEN Ok(10)
  ELSE IF key_bit_length = 192 THEN Ok(12)
  ELSE IF key_bit_length = 256 THEN Ok(14)
  ELSE Raise("KeyError")

\* Mutant: the third list is concatenated twice and the fourth dropped.
state_to_bytes_repeating_row(state) ==
  IF Len(state) < 4 THEN Raise("IndexError")
  ELSE Ok(state[1] \o state[2] \o state[3] \o state[3])

state_to_bytes(state) ==
  IF Len(state) < 4 THEN Raise("IndexError")
  ELSE Ok(state[1] \o state[2] \o state[3] \o state[4])

bytes_to_state(data) ==
  [i \in 1..(Len(data) \div 4) |-> PySlice(data, (i - 1) * 4, i * 4)]

\* One iteration of key_expansion's loop: the word xor-ed into
\* w[i - number_keys] (w is the list of words so far, i its length).
\* Mutant: the round constants are counted from 0.
rcon_argument_from_zero(i, number_keys) == (i \div number_keys) - 1

\* The argument of rcon in the iteration for i.
rcon_argument(i, number_keys) == i \div number_keys

\* Mutant: without the elif branch of 256-bit keys.
key_expansion_temp_without_elif(w, i, number_keys) ==
  LET temp == w[i]
      rc == rcon(rcon_argument(i, number_keys))
  IN  IF i % number_keys = 0
      THEN IF rc.err # "none" THEN Raise(rc.err)
           ELSE Ok(xor_bytes(sub_word(rot_word(temp)), rc.val))
      ELSE Ok(temp)

key_expansion_temp(w, i, number_keys) ==
  LET temp == w[i]
      rc == rcon(rcon_argument(i, number_keys))
  IN  IF i % number_keys = 0
      THEN IF rc.err # "none" THEN Raise(rc.err)
           ELSE Ok(xor_bytes(sub_word(rot_word(temp)), rc.val))
      ELSE IF number_keys > 6 /\ i % number_keys = 4
      THEN Ok(sub_word(temp))
      ELSE Ok(temp)

\* [w[i * 4 : (i + 1) * 4] for i in range(len(w) // 4)]
key_schedule_of(w) ==
  [i \in 1..(Len(w) \div 4) |-> PySlice(w, (i - 1) * 4, i * 4)]

\* Mutant: the inverse rotates the same way as shift_rows.
inv_shift_rows_rotating_left(state) == shift_rows(state)

inv_shift_rows(state) ==
  IF Len(state) < 4 THEN Raise("IndexError")
  ELSE
    LET s1 == [state EXCEPT ![2][2] = state[1][2], ![3][2] = state[2][2],
                            ![4][2] = state[3][2], ![1][2] = state[4][2]]
        s2 == [s1 EXCEPT ![3][3] = s1[1][3], ![4][3] = s1[2][3],
                         ![1][3] = s1[3][3], ![2][3] = s1[4][3]]
        s3 == [s2 EXCEPT ![4][4] = s2[1][4], ![1][4] = s2[2][4],
                         ![2][4] = s2[3][4], ![3][4] = s2[4][4]]
    IN  Ok(s3)

\* Mutant: the inverse substitution looks the bytes up in AES_S_BOX.
inv_sub_bytes_with_s_box(state) ==
  [row \in 1..Len(state) |->
     [column \in 1..Len(state[1]) |-> AES_S_BOX[state[row][column] + 1]]]

inv_sub_bytes(state) ==
  [row \in 1..Len(state) |->
     [column \in 1..Len(state[1]) |-> INV_S_BOX[state[row][column] + 1]]]

xtimes_0e(b) == xtime(Xor(xtime(Xor(xtime(b), b)), b))

xtimes_0b(b) == Xor(xtime(Xor(xtime(xtime(b)), b)), b)

xtimes_0d(b) == Xor(xtime(xtime(Xor(xtime(b), b))), b)

xtimes_09(b) == Xor(xtime(xtime(xtime(b))), b)

\* Mutant: the multipliers 0b and 0d change places.
inv_mix_column_swapping_0b_0d(col) ==
  LET c_0 == col[1]
      c_1 == col[2]
      c_2 == col[3]
      c_3 == col[4]
  IN  << Xor(Xor(Xor(xtimes_0e(c_0), xtimes_0d(c_1)), xtimes_0b(c_2)), xtimes_09(c_3)),
         Xor(Xor(Xor(xtimes_09(c_0), xtimes_0e(c_1)), xtimes_0d(c_2)), xtimes_0b(c_3)),
         Xor(Xor(Xor(xtimes_0b(c_0), xtimes_09(c_1)), xtimes_0e(c_2)), xtimes_0d(c_3)),
         Xor(Xor(Xor(xtimes_0d(c_0), xtimes_0b(c_1)), xtimes_09(c_2)), xtimes_0e(c_3)) >>

inv_mix_column(col) ==
  LET c_0 == col[1]
      c_1 == col[2]
      c_2 == col[3]
      c_3 == col[4]
  IN  << Xor(Xor(Xor(xtimes_0e(c_0), xtimes_0b(c_1)), xtimes_0d(c_2)), xtimes_09(c_3)),
         Xor(Xor(Xor(xtimes_09(c_0), xtimes_0e(c_1)), xtimes_0b(c_2)), xtimes_0d(c_3)),
         Xor(Xor(Xor(xtimes_0d(c_0), xtimes_09(c_1)), xtimes_0e(c_2)), xtimes_0b(c_3)),
         Xor(Xor(Xor(xtimes_0b(c_0), xtimes_0d(c_1)), xtimes_09(c_2)), xtimes_0e(c_3)) >>

inv_mix_columns(state) == [i \in 1..Len(state) |-> inv_mix_column(state[i])]

\* Mutant: the key size is not validated.
generate_aes_key_of_any_size(key_size, random) == Ok(random)

\* random is what os.urandom(key_size) returns: key_size bytes.
generate_aes_key(key_size, random) ==
  IF key_size \notin {16, 24, 32} THEN Raise("ValueError") ELSE Ok(random)

(***************************************************************************)
(* encryption and decryption, one statement at a time.  A call is a frame: *)
(* its arguments, its locals, the statement it is about to run (pc), the   *)
(* value it returned (out) or the exception it raised (err), and the log   *)
(* of the transformations it has run (steps: <<name, round argument>>,     *)
(* the round being -1 for a transformation that takes none).  While        *)
(* key_expansion runs, number_keys, w, i and stop are its locals, and       *)
(* rcon_values the arguments it has called rcon with.                      *)
(***************************************************************************)
NoCall ==
  [op |-> "none", pc |-> "idle", data |-> <<>>, key |-> <<>>,
   number_rounds |-> 0, state |-> <<>>, key_schedule |-> <<>>, round |-> 0,
   number_keys |-> 0, w |-> <<>>, i |-> 0, stop |-> 0, rcon_values |-> <<>>,
   out |-> <<>>, err |-> "none", steps |-> <<>>]

encryption_entry(data, key) ==
  [NoCall EXCEPT !.op = "encryption", !.pc = "number_rounds",
                 !.data = data, !.key = key]

decryption_entry(cipher, key) ==
  [NoCall EXCEPT !.op = "decryption", !.pc = "number_rounds",
                 !.data = cipher, !.key = key]

Finished(f) == f.pc \in {"returned", "raised"}

Raised(f, e) == [f EXCEPT !.pc = "raised", !.err = e]

Logged(f, name, round) == [f EXCEPT !.steps = Append(@, <<name, round>>)]

\* state = <transformation>(state), or the exception it raised.
Transformed(f, name, round, result, next_pc) ==
  IF result.err # "none" THEN Raised(Logged(f, name, round), result.err)
  ELSE [Logged(f, name, round) EXCEPT !.state = result.val, !.pc = next_pc]

\* Mutant: the state is built before the key length is looked up.
lookup_number_rounds_after_state(f) ==
  LET nr == number_rounds(Len(f.key) * 8) IN
  IF nr.err # "none" THEN Raised(Logged(f, "bytes_to_state", -1), nr.err)
  ELSE [f EXCEPT !.number_rounds = nr.val, !.pc = "bytes_to_state"]

\* Statements shared by encryption and decryption.
lookup_number_rounds(f) ==
  LET nr == number_rounds(Len(f.key) * 8) IN
  IF nr.err # "none" THEN Raised(f, nr.err)
  ELSE [f EXCEPT !.number_rounds = nr.val, !.pc = "bytes_to_state"]

\* Mutant: building the state empties the caller's block.
build_state_consuming_data(f) ==
  [Logged(f, "bytes_to_state", -1) EXCEPT
     !.state = bytes_to_state(f.data), !.data = <<>>, !.pc = "key_expansion"]

build_state(f) ==
  [Logged(f, "bytes_to_state", -1) EXCEPT
     !.state = bytes_to_state(f.data), !.pc = "key_expansion"]

\* Mutant: the loop stops at number_bytes * number_rounds.
key_expansion_entry_one_key_short(f) ==
  LET nr == number_rounds(Len(f.key) * 8) IN
  IF nr.err # "none" THEN Raised(Logged(f, "key_expansion", -1), nr.err)
  ELSE [Logged(f, "key_expansion", -1) EXCEPT
          !.number_keys = Len(f.key) \div 4,
          !.w = bytes_to_state(f.key),
          !.i = Len(f.key) \div 4,
          !.stop = 4 * nr.val,
          !.pc = "key_expansion_loop"]

\* key_schedule = key_expansion(key): the call, up to its loop.
key_expansion_entry(f) ==
  LET nr == number_rounds(Len(f.key) * 8) IN
  IF nr.err # "none" THEN Raised(Logged(f, "key_expansion", -1), nr.err)
  ELSE [Logged(f, "key_expansion", -1) EXCEPT
          !.number_keys = Len(f.key) \div 4,
          !.w = bytes_to_state(f.key),
          !.i = Len(f.key) \div 4,
          !.stop = 4 * (nr.val + 1),
          !.pc = "key_expansion_loop"]

\* for i in range(number_keys, number_bytes * (number_rounds + 1)): one
\* iteration, or the return after the last one.
key_expansion_loop(f) ==
  IF f.i < f.stop
  THEN LET temp == key_expansion_temp(f.w, f.i, f.number_keys)
           called == IF f.i % f.number_keys = 0
                     THEN Append(f.rcon_values, rcon_argument(f.i, f.number_keys))
                     ELSE f.rcon_values
       IN
       IF temp.err # "none" THEN Raised([f EXCEPT !.rcon_values = called], temp.err)
       ELSE [f EXCEPT !.w = Append(@, xor_bytes(f.w[f.i - f.number_keys + 1], temp.val)),
                      !.i = @ + 1,
                      !.rcon_values = called]
  ELSE [f EXCEPT !.key_schedule = key_schedule_of(f.w),
                 !.pc = "add_round_key_first"]

return_bytes(f) ==
  LET b == state_to_bytes(f.state) IN
  IF b.err # "none" THEN Raised(Logged(f, "state_to_bytes", -1), b.err)
  ELSE [Logged(f, "state_to_bytes", -1) EXCEPT !.out = b.val, !.pc = "returned"]

\* Mutant: for round in range(1, number_rounds + 1).
encryption_step_with_one_more_round(f) ==
  CASE f.pc = "number_rounds" -> lookup_number_rounds(f)
    [] f.pc = "bytes_to_state" -> build_state(f)
    [] f.pc = "key_expansion" -> key_expansion_entry(f)
    [] f.pc = "key_expansion_loop" -> key_expansion_loop(f)
    [] f.pc = "add_round_key_first" ->
         \* add_round_key(round=0), then for round in range(1, number_rounds)
         LET g == Transformed(f, "add_round_key", 0,
                              add_round_key(f.state, f.key_schedule, 0),
                              IF 1 < f.number_rounds THEN "sub_bytes"
                              ELSE "final_sub_bytes")
         IN  IF Finished(g) THEN g ELSE [g EXCEPT !.round = 1]
    [] f.pc = "sub_bytes" ->
         Transformed(f, "sub_bytes", -1, Ok(sub_bytes(f.state)), "shift_rows")
    [] f.pc = "shift_rows" ->
         Transformed(f, "shift_rows", -1, shift_rows(f.state), "mix_columns")
    [] f.pc = "mix_columns" ->
         Transformed(f, "mix_columns", -1, Ok(mix_columns(f.state)), "add_round_key")
    [] f.pc = "add_round_key" ->
         LET g == Transformed(f, "add_round_key", f.round,
                              add_round_key(f.state, f.key_schedule, f.round),
                              IF f.round < f.number_rounds THEN "sub_bytes"
                              ELSE "final_sub_bytes")
         IN  IF Finished(g) \/ f.round >= f.number_rounds THEN g
             ELSE [g EXCEPT !.round = f.round + 1]
    [] f.pc = "final_sub_bytes" ->
         Transformed(f, "sub_bytes", -1, Ok(sub_bytes(f.state)), "final_shift_rows")
    [] f.pc = "final_shift_rows" ->
         Transformed(f, "shift_rows", -1, shift_rows(f.state), "add_round_key_last")
    [] f.pc = "add_round_key_last" ->
         Transformed(f, "add_round_key", f.number_rounds,
                     add_round_key(f.state, f.key_schedule, f.number_rounds),
                     "state_to_bytes")
    [] f.pc = "state_to_bytes" -> return_bytes(f)

encryption_step(f) ==
  CASE f.pc = "number_rounds" -> lookup_number_rounds(f)
    [] f.pc = "bytes_to_state" -> build_state(f)
    [] f.pc = "key_expansion" -> key_expansion_entry(f)
    [] f.pc = "key_expansion_loop" -> key_expansion_loop(f)
    [] f.pc = "add_round_key_first" ->
         \* add_round_key(round=0), then for round in range(1, number_rounds)
         LET g == Transformed(f, "add_round_key", 0,
                              add_round_key(f.state, f.key_schedule, 0),
                              IF 1 < f.number_rounds THEN "sub_bytes"
                              ELSE "final_sub_bytes")
         IN  IF Finished(g) THEN g ELSE [g EXCEPT !.round = 1]
    [] f.pc = "sub_bytes" ->
         Transformed(f, "sub_bytes", -1, Ok(sub_bytes(f.state)), "shift_rows")
    [] f.pc = "shift_rows" ->
         Transformed(f, "shift_rows", -1, shift_rows(f.state), "mix_columns")
    [] f.pc = "mix_columns" ->
         Transformed(f, "mix_columns", -1, Ok(mix_columns(f.state)), "add_round_key")
    [] f.pc = "add_round_key" ->
         LET g == Transformed(f, "add_round_key", f.round,
                              add_round_key(f.state, f.key_schedule, f.round),
                              IF f.round + 1 < f.number_rounds THEN "sub_bytes"
                              ELSE "final_sub_bytes")
         IN  IF Finished(g) \/ f.round + 1 >= f.number_rounds THEN g
             ELSE [g EXCEPT !.round = f.round + 1]
    [] f.pc = "final_sub_bytes" ->
         Transformed(f, "sub_bytes", -1, Ok(sub_bytes(f.state)), "final_shift_rows")
    [] f.pc = "final_shift_rows" ->
         Transformed(f, "shift_rows", -1, shift_rows(f.state), "add_round_key_last")
    [] f.pc = "add_round_key_last" ->
         Transformed(f, "add_round_key", f.number_rounds,
                     add_round_key(f.state, f.key_schedule, f.number_rounds),
                     "state_to_bytes")
    [] f.pc = "state_to_bytes" -> return_bytes(f)

\* Mutant: inv_mix_columns before add_round_key in the loop.
decryption_step_mixing_before_round_key(f) ==
  CASE f.pc = "number_rounds" -> lookup_number_rounds(f)
    [] f.pc = "bytes_to_state" -> build_state(f)
    [] f.pc = "key_expansion" -> key_expansion_entry(f)
    [] f.pc = "key_expansion_loop" -> key_expansion_loop(f)
    [] f.pc = "add_round_key_first" ->
         \* add_round_key(round=number_rounds), then
         \* for round in range(number_rounds - 1, 0, -1)
         LET g == Transformed(f, "add_round_key", f.number_rounds,
                              add_round_key(f.state, f.key_schedule, f.number_rounds),
                              IF f.number_rounds - 1 > 0 THEN "inv_shift_rows"
                              ELSE "final_inv_shift_rows")
         IN  IF Finished(g) THEN g ELSE [g EXCEPT !.round = f.number_rounds - 1]
    [] f.pc = "inv_shift_rows" ->
         Transformed(f, "inv_shift_rows", -1, inv_shift_rows(f.state), "inv_sub_bytes")
    [] f.pc = "inv_sub_bytes" ->
         Transformed(f, "inv_sub_bytes", -1, Ok(inv_sub_bytes(f.state)), "inv_mix_columns")
    [] f.pc = "inv_mix_columns" ->
         Transformed(f, "inv_mix_columns", -1, Ok(inv_mix_columns(f.state)),
                     "add_round_key")
    [] f.pc = "add_round_key" ->
         LET g == Transformed(f, "add_round_key", f.round,
                              add_round_key(f.state, f.key_schedule, f.round),
                              IF f.round - 1 > 0 THEN "inv_shift_rows"
                              ELSE "final_inv_shift_rows")
         IN  IF Finished(g) \/ f.round - 1 <= 0 THEN g
             ELSE [g EXCEPT !.round = f.round - 1]
    [] f.pc = "final_inv_shift_rows" ->
         Transformed(f, "inv_shift_rows", -1, inv_shift_rows(f.state),
                     "final_inv_sub_bytes")
    [] f.pc = "final_inv_sub_bytes" ->
         Transformed(f, "inv_sub_bytes", -1, Ok(inv_sub_bytes(f.state)),
                     "add_round_key_last")
    [] f.pc = "add_round_key_last" ->
         Transformed(f, "add_round_key", 0,
                     add_round_key(f.state, f.key_schedule, 0), "state_to_bytes")
    [] f.pc = "state_to_bytes" -> return_bytes(f)

decryption_step(f) ==
  CASE f.pc = "number_rounds" -> lookup_number_rounds(f)
    [] f.pc = "bytes_to_state" -> build_state(f)
    [] f.pc = "key_expansion" -> key_expansion_entry(f)
    [] f.pc = "key_expansion_loop" -> key_expansion_loop(f)
    [] f.pc = "add_round_key_first" ->
         \* add_round_key(round=number_rounds), then
         \* for round in range(number_rounds - 1, 0, -1)
         LET g == Transformed(f, "add_round_key", f.number_rounds,
                              add_round_key(f.state, f.key_schedule, f.number_rounds),
                              IF f.number_rounds - 1 > 0 THEN "inv_shift_rows"
                              ELSE "final_inv_shift_rows")
         IN  IF Finished(g) THEN g ELSE [g EXCEPT !.round = f.number_rounds - 1]
    [] f.pc = "inv_shift_rows" ->
         Transformed(f, "inv_shift_rows", -1, inv_shift_rows(f.state), "inv_sub_bytes")
    [] f.pc = "inv_sub_bytes" ->
         Transformed(f, "inv_sub_bytes", -1, Ok(inv_sub_bytes(f.state)), "add_round_key")
    [] f.pc = "add_round_key" ->
         Transformed(f, "add_round_key", f.round,
                     add_round_key(f.state, f.key_schedule, f.round),
                     "inv_mix_columns")
    [] f.pc = "inv_mix_columns" ->
         LET g == Transformed(f, "inv_mix_columns", -1, Ok(inv_mix_columns(f.state)),
                              IF f.round - 1 > 0 THEN "inv_shift_rows"
                              ELSE "final_inv_shift_rows")
         IN  IF f.round - 1 > 0 THEN [g EXCEPT !.round = f.round - 1] ELSE g
    [] f.pc = "final_inv_shift_rows" ->
         Transformed(f, "inv_shift_rows", -1, inv_shift_rows(f.state),
                     "final_inv_sub_bytes")
    [] f.pc = "final_inv_sub_bytes" ->
         Transformed(f, "inv_sub_bytes", -1, Ok(inv_sub_bytes(f.state)),
                     "add_round_key_last")
    [] f.pc = "add_round_key_last" ->
         Transformed(f, "add_round_key", 0,
                     add_round_key(f.state, f.key_schedule, 0), "state_to_bytes")
    [] f.pc = "state_to_bytes" -> return_bytes(f)

(***************************************************************************)
(* cryp/aes/ecb.py, one statement at a time.  blocks is the list the loop  *)
(* appends to (cipher in ecb_encryption, plain in ecb_decryption); calls   *)
(* logs the block calls made so far, each as <<argument, returned bytes>>. *)
(***************************************************************************)
NoEcb ==
  [op |-> "none", pc |-> "idle", buffer |-> <<>>, key |-> <<>>, j |-> 0,
   blocks |-> <<>>, out |-> <<>>, err |-> "none", calls |-> <<>>]

ecb_entry(op, buffer, key) ==
  [NoEcb EXCEPT !.op = op, !.pc = "loop", !.buffer = buffer, !.key = key]

\* for j in range(len(buffer) // AES_BLOCK_SIZE)
ecb_in_range(e) == e.j < Len(e.buffer) \div AES_BLOCK_SIZE

\* Mutant: the slice starts one byte late.
ecb_block_off_by_one(e) ==
  PySlice(e.buffer, e.j * AES_BLOCK_SIZE + 1, (e.j + 1) * AES_BLOCK_SIZE + 1)

\* buffer[j * AES_BLOCK_SIZE : (j + 1) * AES_BLOCK_SIZE]
ecb_block(e) ==
  PySlice(e.buffer, e.j * AES_BLOCK_SIZE, (e.j + 1) * AES_BLOCK_SIZE)

\* Mutant: blocks = c_j instead of blocks += c_j.
ecb_append_assigning(e, f) ==
  IF f.pc = "raised" THEN [e EXCEPT !.pc = "raised", !.err = f.err]
  ELSE [e EXCEPT !.pc = "loop", !.blocks = f.out, !.j = @ + 1,
                 !.calls = Append(@, <<f.data, f.out>>)]

\* blocks += <the bytes the block call returned>; an exception of the
\* block call ends the ECB call.
ecb_append(e, f) ==
  IF f.pc = "raised" THEN [e EXCEPT !.pc = "raised", !.err = f.err]
  ELSE [e EXCEPT !.pc = "loop", !.blocks = @ \o f.out, !.j = @ + 1,
                 !.calls = Append(@, <<f.data, f.out>>)]

\* return bytes(blocks)
ecb_return(e) == [e EXCEPT !.pc = "returned", !.out = e.blocks]

(***************************************************************************)
(* State: the block call in progress (call); the ECB call in progress,     *)
(* which makes block calls (ecb); a direct call of rcon (rcon_call); a     *)
(* bytes_to_state / state_to_bytes conversion (conv); and, while the       *)
(* output of an encryption is being decrypted again, that encryption's     *)
(* arguments and output as its caller holds them (prev).                   *)
(***************************************************************************)
VARIABLES call, ecb, prev, conv, rcon_call, xf, keygen, memo, caesar, caesar_prev,
          blocked_ports, rules, notifications, threads, calls, iptables, config,
          field, port_ip_history, port_statistics, port_status, alerts,
          block_calls, clock, packets, last_packet

\* The variables of the AES calls, and the variables of the other programs
\* of the repository, which no AES call touches.
aesVars == <<call, ecb, prev, conv, rcon_call>>

\* PortManager: its blocked_ports, the DROP rules of the firewall, the
\* notifications the registered callback has received, the calls in
\* progress in each thread, the number of calls made so far, whether the
\* host has a working iptables, and the configuration.
portVars == <<blocked_ports, rules, notifications, threads, calls, iptables, config>>

\* MultiPortDetector: its dicts, the alerts it has sent and the block_port
\* calls it has made, the time, and the packets it has been given.
detectorVars == <<port_ip_history, port_statistics, port_status, alerts,
                  block_calls, clock, packets, last_packet>>

others == <<xf, keygen, memo, caesar, caesar_prev, portVars, field, detectorVars>>

vars == <<aesVars, others>>

NoPrev == [op |-> "none", data |-> <<>>, key |-> <<>>, out |-> <<>>]

NoConv == [pc |-> "idle", data |-> <<>>, state |-> <<>>, bytes |-> Ok(<<>>)]

NoRcon == [pc |-> "idle", value |-> 0, result |-> Ok(<<>>)]

\* A round transformation applied to a state (out), then its inverse
\* applied to the result (back); both work in place on the caller's list.
NoXf == [pc |-> "idle", state |-> <<>>, out |-> Ok(<<>>), back |-> Ok(<<>>)]

\* A call of generate_aes_key.
NoKeygen == [pc |-> "idle", key_size |-> 0, result |-> Ok(<<>>)]

\* The arguments and the outcome of an earlier call, as its caller keeps
\* them.
NoMemo == [op |-> "none", data |-> <<>>, key |-> <<>>, out |-> <<>>, err |-> "none"]

\* A call of the Caesar cipher (caesar), and the call whose arguments or
\* result it was given (caesar_prev).
NoCaesar == [op |-> "none", message |-> <<>>, shift |-> 0, result |-> Ok(<<>>)]

\* A call of xtime and of the four multipliers on a byte b.
NoField == [pc |-> "idle", b |-> 0, products |-> <<>>]

\* No packet.
NoPacket == [src |-> "", dport |-> 0]

\* MultiPortDetector(config, port_manager, notification_system), no packet
\* captured yet.
NoDetector ==
  /\ port_ip_history = << >>
  /\ port_statistics = << >>
  /\ port_status = << >>
  /\ alerts = << >>
  /\ block_calls = << >>
  /\ clock = 0
  /\ packets = 0
  /\ last_packet = NoPacket

\* Bounds of PortManager: the ports, and the calls the detector and the
\* dashboard make between them.
MaxPorts == 2
MaxCalls == 3

FirstPort == 80

Ports == FirstPort..(FirstPort + MaxPorts - 1)

\* The threads that call PortManager: the detector, the dashboard, and one
\* Timer thread for each block_port call.
Callers == {<<"detector", 0>>, <<"dashboard", 0>>}

TimerThreads == {<<"timer", n>> : n \in 1..MaxCalls}

Threads == Callers \cup TimerThreads

\* A thread's call: the method, the statement it is about to run, its port
\* argument, and what it has done so far; block is the number of the
\* block_port call that the frame runs or that started the Timer, and
\* deleted the 'blocked_at' of the entry that its del removed.
NoFrame == [fn |-> "none", pc |-> "idle", port |-> 0, did |-> {}, block |-> 0, deleted |-> 0]

\* PortManager(config) on a host with iptables, nothing called yet.
NoPortManager ==
  /\ blocked_ports = << >>
  /\ rules = [port \in Ports |-> 0]
  /\ notifications = << >>
  /\ threads = [t \in Threads |-> NoFrame]
  /\ calls = 0
  /\ iptables = "present"
  /\ config = [auto_unblock |-> TRUE]

\* Bounds of the inputs.
MaxKeyLen == 33
MaxBlockLen == 20
MaxSeed == 1
MaxBlocks == 2
MaxRconValue == 12

\* Seed 0 gives the FIPS-197 appendix C keys 00 01 02 ... and plaintext
\* 00 11 22 ... ff.
KeyOf(n, seed) == [i \in 1..n |-> ((i - 1) + seed * (11 * i + 5)) % 256]

BytesOf(n, seed) == [i \in 1..n |-> (17 * (i - 1) + seed * (7 * i * i + 3)) % 256]

Keys == {KeyOf(n, seed) : n \in 0..MaxKeyLen, seed \in 0..MaxSeed}

\* FIPS-197 appendix C ciphertexts (tests/test_aes.py).
CipherText128 == <<105, 196, 224, 216, 106, 123, 4, 48, 216, 205, 183, 128, 112, 180, 197, 90>>
CipherText192 == <<221, 169, 124, 164, 134, 76, 223, 224, 110, 175, 112, 160, 236, 13, 113, 145>>
CipherText256 == <<142, 162, 183, 202, 81, 103, 69, 191, 234, 252, 73, 144, 75, 73, 96, 137>>

\* bytes(range(16)), the example of bytes_to_state's docstring.
Range16 == [i \in 1..AES_BLOCK_SIZE |-> i - 1]

Blocks ==
  {BytesOf(n, seed) : n \in 0..MaxBlockLen, seed \in 0..MaxSeed}
    \cup {CipherText128, CipherText192, CipherText256, Range16}

\* Whole blocks, alone or followed by 5 more bytes.
Buffers ==
  {BytesOf(AES_BLOCK_SIZE * b + r, seed) :
     b \in 0..MaxBlocks, r \in {0, 5}, seed \in 0..MaxSeed}

RconValues == (0 - MaxRconValue)..MaxRconValue

Idle ==
  /\ call = NoCall
  /\ ecb = NoEcb
  /\ prev = NoPrev
  /\ conv = NoConv
  /\ rcon_call = NoRcon

OthersIdle ==
  /\ xf = NoXf
  /\ keygen = NoKeygen
  /\ memo = NoMemo
  /\ caesar = NoCaesar
  /\ caesar_prev = NoCaesar
  /\ NoPortManager
  /\ field = NoField
  /\ NoDetector

Init == Idle /\ OthersIdle

StartEncryption ==
  /\ Idle
  /\ \E data \in Blocks, key \in Keys : call' = encryption_entry(data, key)
  /\ UNCHANGED <<ecb, prev, conv, rcon_call>>
  /\ UNCHANGED others

StartDecryption ==
  /\ Idle
  /\ \E cipher \in Blocks, key \in Keys : call' = decryption_entry(cipher, key)
  /\ UNCHANGED <<ecb, prev, conv, rcon_call>>
  /\ UNCHANGED others

EncryptionStep ==
  /\ call.op = "encryption"
  /\ ~Finished(call)
  /\ call' = encryption_step(call)
  /\ UNCHANGED <<ecb, prev, conv, rcon_call>>
  /\ UNCHANGED others

DecryptionStep ==
  /\ call.op = "decryption"
  /\ ~Finished(call)
  /\ call' = decryption_step(call)
  /\ UNCHANGED <<ecb, prev, conv, rcon_call>>
  /\ UNCHANGED others

\* ciphertext = encryption(plaintext, key); decryption(ciphertext, key)
DecryptCiphertext ==
  /\ ecb = NoEcb
  /\ call.op = "encryption"
  /\ call.pc = "returned"
  /\ prev' = [op |-> "encryption", data |-> call.data, key |-> call.key,
              out |-> call.out]
  /\ call' = decryption_entry(call.out, call.key)
  /\ UNCHANGED <<ecb, conv, rcon_call>>
  /\ UNCHANGED others

StartEcbEncryption ==
  /\ Idle
  /\ \E plain \in Buffers, key \in Keys :
       ecb' = ecb_entry("ecb_encryption", plain, key)
  /\ UNCHANGED <<call, prev, conv, rcon_call>>
  /\ UNCHANGED others

StartEcbDecryption ==
  /\ Idle
  /\ \E cipher \in Buffers, key \in Keys :
       ecb' = ecb_entry("ecb_decryption", cipher, key)
  /\ UNCHANGED <<call, prev, conv, rcon_call>>
  /\ UNCHANGED others

\* Loop header and the call of encryption on the next block, or the return
\* after the last block.
EcbEncryptionLoop ==
  /\ ecb.op = "ecb_encryption"
  /\ ecb.pc = "loop"
  /\ IF ecb_in_range(ecb)
     THEN /\ call' = encryption_entry(ecb_block(ecb), ecb.key)
          /\ ecb' = [ecb EXCEPT !.pc = "call"]
     ELSE /\ ecb' = ecb_return(ecb)
          /\ UNCHANGED call
  /\ UNCHANGED <<prev, conv, rcon_call>>
  /\ UNCHANGED others

\* cipher += c_j
EcbEncryptionAppend ==
  /\ ecb.op = "ecb_encryption"
  /\ ecb.pc = "call"
  /\ Finished(call)
  /\ ecb' = ecb_append(ecb, call)
  /\ call' = NoCall
  /\ UNCHANGED <<prev, conv, rcon_call>>
  /\ UNCHANGED others

EcbDecryptionLoop ==
  /\ ecb.op = "ecb_decryption"
  /\ ecb.pc = "loop"
  /\ IF ecb_in_range(ecb)
     THEN /\ call' = decryption_entry(ecb_block(ecb), ecb.key)
          /\ ecb' = [ecb EXCEPT !.pc = "call"]
     ELSE /\ ecb' = ecb_return(ecb)
          /\ UNCHANGED call
  /\ UNCHANGED <<prev, conv, rcon_call>>
  /\ UNCHANGED others

\* plain += p_j
EcbDecryptionAppend ==
  /\ ecb.op = "ecb_decryption"
  /\ ecb.pc = "call"
  /\ Finished(call)
  /\ ecb' = ecb_append(ecb, call)
  /\ call' = NoCall
  /\ UNCHANGED <<prev, conv, rcon_call>>
  /\ UNCHANGED others

\* ciphertext = ecb_encryption(plaintext, key); ecb_decryption(ciphertext, key)
EcbDecryptCiphertext ==
  /\ ecb.op = "ecb_encryption"
  /\ ecb.pc = "returned"
  /\ prev' = [op |-> "ecb_encryption", data |-> ecb.buffer, key |-> ecb.key,
              out |-> ecb.out]
  /\ ecb' = ecb_entry("ecb_decryption", ecb.out, ecb.key)
  /\ UNCHANGED <<call, conv, rcon_call>>
  /\ UNCHANGED others

CallRcon ==
  /\ Idle
  /\ \E value \in RconValues :
       rcon_call' = [pc |-> IF rcon(value).err = "none" THEN "returned" ELSE "raised",
                     value |-> value, result |-> rcon(value)]
  /\ UNCHANGED <<call, ecb, prev, conv>>
  /\ UNCHANGED others

CallBytesToState ==
  /\ Idle
  /\ \E data \in Blocks :
       conv' = [NoConv EXCEPT !.pc = "bytes_to_state", !.data = data,
                              !.state = bytes_to_state(data)]
  /\ UNCHANGED <<call, ecb, prev, rcon_call>>
  /\ UNCHANGED others

CallStateToBytes ==
  /\ conv.pc = "bytes_to_state"
  /\ conv' = [conv EXCEPT !.pc = "state_to_bytes",
                          !.bytes = state_to_bytes(conv.state)]
  /\ UNCHANGED <<call, ecb, prev, rcon_call>>
  /\ UNCHANGED others

\* The caller drops the results of the call it made.
Return ==
  /\ \/ Finished(call) /\ ecb = NoEcb
     \/ Finished(ecb)
     \/ rcon_call.pc # "idle"
     \/ conv.pc = "state_to_bytes"
  /\ call' = NoCall
  /\ ecb' = NoEcb
  /\ prev' = NoPrev
  /\ conv' = NoConv
  /\ rcon_call' = NoRcon
  /\ UNCHANGED others

Next ==
  \/ StartEncryption
  \/ StartDecryption
  \/ EncryptionStep
  \/ DecryptionStep
  \/ DecryptCiphertext
  \/ StartEcbEncryption
  \/ StartEcbDecryption
  \/ EcbEncryptionLoop
  \/ EcbEncryptionAppend
  \/ EcbDecryptionLoop
  \/ EcbDecryptionAppend
  \/ EcbDecryptCiphertext
  \/ CallRcon
  \/ CallBytesToState
  \/ CallStateToBytes
  \/ Return

Spec == Init /\ [][Next]_vars

(***************************************************************************)
(* The round transformations and generate_aes_key called on their own.     *)
(***************************************************************************)
MaxStateSeed == 7
MaxKeySize == 33

\* The state of tests/test_aes.py::test_aes_shift_rows.
ShiftRowsState == <<<<1, 2, 3, 4>>, <<5, 6, 7, 8>>, <<9, 10, 11, 12>>, <<13, 14, 15, 16>>>>

ShiftRowsExpected == <<<<1, 6, 11, 16>>, <<5, 10, 15, 4>>, <<9, 14, 3, 8>>, <<13, 2, 7, 12>>>>

\* States whose lists hold one byte with one bit set each: list i of state n
\* has 2^n at position (i + n) mod 4.
UnitStates ==
  {[i \in 1..4 |-> [j \in 1..4 |-> IF j - 1 = (i + n) % 4 THEN 2 ^ n ELSE 0]] :
     n \in 0..7}

\* 4x4 states: sixteen that hold every byte value between them, pseudo-random
\* ones, the state of the test, and the unit states.
States ==
  {bytes_to_state([i \in 1..AES_BLOCK_SIZE |-> AES_BLOCK_SIZE * k + i - 1]) : k \in 0..15}
    \cup {bytes_to_state(BytesOf(AES_BLOCK_SIZE, seed)) : seed \in 0..MaxStateSeed}
    \cup {ShiftRowsState}
    \cup UnitStates

KeySizes == (0 - 1)..MaxKeySize

\* What os.urandom(n) can return: strings of n bytes.
urandom(n) ==
  IF n < 0 THEN {<<>>}
  ELSE {BytesOf(n, seed) : seed \in 0..MaxSeed} \cup {KeyOf(n, seed) : seed \in 0..MaxSeed}

HelpersIdle == xf = NoXf /\ keygen = NoKeygen /\ field = NoField

CallShiftRows ==
  /\ HelpersIdle
  /\ \E state \in States :
       xf' = [NoXf EXCEPT !.pc = "shift_rows", !.state = state,
                          !.out = shift_rows(state)]
  /\ UNCHANGED <<aesVars, field, detectorVars, keygen, memo, caesar, caesar_prev, portVars>>

CallInvShiftRows ==
  /\ xf.pc = "shift_rows"
  /\ xf.out.err = "none"
  /\ xf' = [xf EXCEPT !.pc = "inv_shift_rows", !.back = inv_shift_rows(xf.out.val)]
  /\ UNCHANGED <<aesVars, field, detectorVars, keygen, memo, caesar, caesar_prev, portVars>>

CallMixColumns ==
  /\ HelpersIdle
  /\ \E state \in States :
       xf' = [NoXf EXCEPT !.pc = "mix_columns", !.state = state,
                          !.out = Ok(mix_columns(state))]
  /\ UNCHANGED <<aesVars, field, detectorVars, keygen, memo, caesar, caesar_prev, portVars>>

CallInvMixColumns ==
  /\ xf.pc = "mix_columns"
  /\ xf' = [xf EXCEPT !.pc = "inv_mix_columns",
                      !.back = Ok(inv_mix_columns(xf.out.val))]
  /\ UNCHANGED <<aesVars, field, detectorVars, keygen, memo, caesar, caesar_prev, portVars>>

CallSubBytes ==
  /\ HelpersIdle
  /\ \E state \in States :
       xf' = [NoXf EXCEPT !.pc = "sub_bytes", !.state = state,
                          !.out = Ok(sub_bytes(state))]
  /\ UNCHANGED <<aesVars, field, detectorVars, keygen, memo, caesar, caesar_prev, portVars>>

CallInvSubBytes ==
  /\ xf.pc = "sub_bytes"
  /\ xf' = [xf EXCEPT !.pc = "inv_sub_bytes",
                      !.back = Ok(inv_sub_bytes(xf.out.val))]
  /\ UNCHANGED <<aesVars, field, detectorVars, keygen, memo, caesar, caesar_prev, portVars>>

CallGenerateAesKey ==
  /\ HelpersIdle
  /\ \E key_size \in KeySizes :
       \E random \in urandom(key_size) :
         LET result == generate_aes_key(key_size, random) IN
         keygen' = [pc |-> IF result.err = "none" THEN "returned" ELSE "raised",
                    key_size |-> key_size, result |-> result]
  /\ UNCHANGED <<aesVars, field, detectorVars, xf, memo, caesar, caesar_prev, portVars>>

\* xtime(b), xtimes_09(b), xtimes_0b(b), xtimes_0d(b), xtimes_0e(b)
CallXtimes ==
  /\ HelpersIdle
  /\ \E b \in 0..255 :
       field' = [pc |-> "xtimes", b |-> b,
                 products |-> <<xtime(b), xtimes_09(b), xtimes_0b(b),
                                xtimes_0d(b), xtimes_0e(b)>>]
  /\ UNCHANGED <<aesVars, detectorVars, xf, keygen, memo, caesar, caesar_prev, portVars>>

HelpersReturn ==
  /\ \/ xf.pc \in {"inv_shift_rows", "inv_mix_columns", "inv_sub_bytes"}
     \/ keygen.pc # "idle"
     \/ field.pc # "idle"
  /\ xf' = NoXf
  /\ keygen' = NoKeygen
  /\ field' = NoField
  /\ UNCHANGED <<aesVars, detectorVars, memo, caesar, caesar_prev, portVars>>

HelpersNext ==
  \/ CallShiftRows
  \/ CallInvShiftRows
  \/ CallMixColumns
  \/ CallInvMixColumns
  \/ CallSubBytes
  \/ CallInvSubBytes
  \/ CallGenerateAesKey
  \/ CallXtimes
  \/ HelpersReturn

SpecHelpers == Init /\ [][HelpersNext]_vars

(***************************************************************************)
(* Calls of encryption and decryption one after the other, the caller      *)
(* keeping the arguments and the outcome of one of them.                   *)
(***************************************************************************)
MaxRepeatSeed == 1

RepeatBlocks == {BytesOf(AES_BLOCK_SIZE, seed) : seed \in 0..MaxRepeatSeed}

\* Keys of the three valid lengths, and one of 8 bytes.
RepeatKeys == {KeyOf(n, 0) : n \in {8, 16, 24, 32}}

RepeatIdle == call = NoCall

RepeatEncryption ==
  /\ RepeatIdle
  /\ \E data \in RepeatBlocks, key \in RepeatKeys :
       call' = encryption_entry(data, key)
  /\ UNCHANGED <<ecb, prev, conv, rcon_call, others>>

RepeatDecryption ==
  /\ RepeatIdle
  /\ \E cipher \in RepeatBlocks, key \in RepeatKeys :
       call' = decryption_entry(cipher, key)
  /\ UNCHANGED <<ecb, prev, conv, rcon_call, others>>

\* The caller keeps what the call was given and what came of it.
Remember ==
  /\ Finished(call)
  /\ memo = NoMemo
  /\ memo' = [op |-> call.op, data |-> call.data, key |-> call.key,
              out |-> call.out, err |-> call.err]
  /\ call' = NoCall
  /\ UNCHANGED <<ecb, prev, conv, rcon_call, xf, keygen, caesar, caesar_prev, portVars,
                 field, detectorVars>>

\* The caller drops the result.
RepeatReturn ==
  /\ Finished(call)
  /\ call' = NoCall
  /\ UNCHANGED <<ecb, prev, conv, rcon_call, others>>

RepeatNext ==
  \/ RepeatEncryption
  \/ RepeatDecryption
  \/ EncryptionStep
  \/ DecryptionStep
  \/ Remember
  \/ RepeatReturn

SpecRepeat == Init /\ [][RepeatNext]_vars

(***************************************************************************)
(* trabalho_00/impl/cryp/caeser/cipher.py.  A str is the sequence of its   *)
(* code points, so that ord and chr need no table.                         *)
(***************************************************************************)
MaxMessageLen == 2
MaxShift == 27

\* Letters outside ASCII that the messages are drawn from: "É" and "é".
OtherUppercase == {201}
OtherLowercase == {233}

\* c.isalpha() and c.islower(), for the characters the messages are drawn
\* from.
isalpha(c) ==
  c \in (65..90) \cup (97..122) \cup OtherUppercase \cup OtherLowercase

islower(c) == c \in (97..122) \cup OtherLowercase

abs(x) == IF x < 0 THEN 0 - x ELSE x

\* The body of the loop of encrypt.
shifted_c(c, shift) ==
  IF isalpha(c)
  THEN LET start == IF islower(c) THEN 97 ELSE 65
       IN  ((c - start + shift) % 26) + start
  ELSE c

encrypt(message, shift) ==
  IF ~(0 - 25 <= shift /\ shift <= 25) THEN Raise("ValueError")
  ELSE Ok([i \in 1..Len(message) |-> shifted_c(message[i], shift)])

\* Mutant: the shift is negated, its sign kept.
decrypt_without_abs(message, shift) == encrypt(message, 0 - shift)

decrypt(message, shift) == encrypt(message, 0 - abs(shift))

\* all_results after the iterations for shift_value = 0 .. n - 1; an
\* exception of decrypt ends the loop.
RECURSIVE brute_force_loop(_, _)
brute_force_loop(message, n) ==
  IF n = 0 THEN Ok(<<>>)
  ELSE LET all_results == brute_force_loop(message, n - 1)
           candidate == decrypt(message, n - 1)
       IN  IF all_results.err # "none" THEN all_results
           ELSE IF candidate.err # "none" THEN Raise(candidate.err)
           ELSE Ok(Append(all_results.val, candidate.val))

\* Mutant: range(25).
brute_force_of_25_shifts(message) == brute_force_loop(message, 25)

brute_force(message) == brute_force_loop(message, 26)

\* a z A Z, space @ {, and "é"
Characters == {97, 122, 65, 90, 32, 64, 123} \cup OtherLowercase

RECURSIVE MessagesOfLen(_)
MessagesOfLen(n) ==
  IF n = 0 THEN {<<>>}
  ELSE {Append(m, c) : m \in MessagesOfLen(n - 1), c \in Characters}

\* "Test Message!" and "Kvjk Dvjjrxv!" (tests/test_caeser.py)
TestMessage == <<84, 101, 115, 116, 32, 77, 101, 115, 115, 97, 103, 101, 33>>

TestCiphertext == <<75, 118, 106, 107, 32, 68, 118, 106, 106, 114, 120, 118, 33>>

Messages ==
  UNION {MessagesOfLen(n) : n \in 0..MaxMessageLen} \cup {TestMessage, TestCiphertext}

Shifts == (0 - MaxShift)..MaxShift

CaesarCall(op, message, shift, result) ==
  [op |-> op, message |-> message, shift |-> shift, result |-> result]

CaesarIdle == caesar = NoCaesar /\ caesar_prev = NoCaesar

CallEncrypt ==
  /\ CaesarIdle
  /\ \E message \in Messages, shift \in Shifts :
       caesar' = CaesarCall("encrypt", message, shift, encrypt(message, shift))
  /\ UNCHANGED <<aesVars, field, detectorVars, xf, keygen, memo, caesar_prev, portVars>>

CallDecrypt ==
  /\ CaesarIdle
  /\ \E message \in Messages, shift \in Shifts :
       caesar' = CaesarCall("decrypt", message, shift, decrypt(message, shift))
  /\ UNCHANGED <<aesVars, field, detectorVars, xf, keygen, memo, caesar_prev, portVars>>

CallBruteForce ==
  /\ CaesarIdle
  /\ \E message \in Messages :
       caesar' = CaesarCall("brute_force", message, 0, brute_force(message))
  /\ UNCHANGED <<aesVars, field, detectorVars, xf, keygen, memo, caesar_prev, portVars>>

\* encrypted = encrypt(message, shift); decrypt(encrypted, shift) or
\* decrypt(encrypted, -shift)
DecryptEncrypted ==
  /\ caesar_prev = NoCaesar
  /\ caesar.op = "encrypt"
  /\ caesar.result.err = "none"
  /\ \E shift \in {caesar.shift, 0 - caesar.shift} :
       caesar' = CaesarCall("decrypt", caesar.result.val, shift,
                            decrypt(caesar.result.val, shift))
  /\ caesar_prev' = caesar
  /\ UNCHANGED <<aesVars, field, detectorVars, xf, keygen, memo, portVars>>

\* decrypt(message, shift); decrypt(message, -shift)
DecryptNegated ==
  /\ caesar_prev = NoCaesar
  /\ caesar.op = "decrypt"
  /\ caesar' = CaesarCall("decrypt", caesar.message, 0 - caesar.shift,
                          decrypt(caesar.message, 0 - caesar.shift))
  /\ caesar_prev' = caesar
  /\ UNCHANGED <<aesVars, field, detectorVars, xf, keygen, memo, portVars>>

\* encrypted = encrypt(message, shift); brute_force(encrypted)
BruteForceEncrypted ==
  /\ caesar_prev = NoCaesar
  /\ caesar.op = "encrypt"
  /\ caesar.result.err = "none"
  /\ caesar' = CaesarCall("brute_force", caesar.result.val, 0,
                          brute_force(caesar.result.val))
  /\ caesar_prev' = caesar
  /\ UNCHANGED <<aesVars, field, detectorVars, xf, keygen, memo, portVars>>

CaesarReturn ==
  /\ caesar # NoCaesar
  /\ caesar' = NoCaesar
  /\ caesar_prev' = NoCaesar
  /\ UNCHANGED <<aesVars, field, detectorVars, xf, keygen, memo, portVars>>

CaesarNext ==
  \/ CallEncrypt
  \/ CallDecrypt
  \/ CallBruteForce
  \/ DecryptEncrypted
  \/ DecryptNegated
  \/ BruteForceEncrypted
  \/ CaesarReturn

SpecCaesar == Init /\ [][CaesarNext]_vars

(***************************************************************************)
(* trabalho_02/src/port_manager.py: block_port and unblock_port, one       *)
(* statement at a time in each thread.  The host either has iptables       *)
(* ("present"), lacks it (subprocess.run raises FileNotFoundError,         *)
(* "missing"), or has one that refuses the command (CalledProcessError,    *)
(* "failing").                                                             *)
(***************************************************************************)
PortManagerInit ==
  /\ Idle
  /\ xf = NoXf
  /\ keygen = NoKeygen
  /\ memo = NoMemo
  /\ caesar = NoCaesar
  /\ caesar_prev = NoCaesar
  /\ field = NoField
  /\ NoDetector
  /\ blocked_ports = << >>
  /\ rules = [port \in Ports |-> 0]
  /\ notifications = << >>
  /\ threads = [t \in Threads |-> NoFrame]
  /\ calls = 0
  /\ iptables \in {"present", "missing", "failing"}
  /\ config \in [auto_unblock : BOOLEAN]

\* The frame of thread t after a statement: at pc, having done what.
Moved(t, pc, what) ==
  [threads EXCEPT ![t] = [@ EXCEPT !.pc = pc, !.did = @ \cup what]]

\* The dict without the key.
Deleted(dict, key) == [k \in DOMAIN dict \ {key} |-> dict[k]]

\* The detector or the dashboard calls block_port(port).
CallBlockPort(t) ==
  /\ t \in Callers
  /\ threads[t].fn = "none"
  /\ calls < MaxCalls
  /\ calls' = calls + 1
  /\ \E port \in Ports :
       threads' = [threads EXCEPT ![t] =
                     [fn |-> "block_port", pc |-> "check", port |-> port, did |-> {},
                      block |-> calls + 1, deleted |-> 0]]
  /\ UNCHANGED <<aesVars, field, detectorVars, xf, keygen, memo, caesar, caesar_prev,
                 blocked_ports, rules, notifications, iptables, config>>

\* if port not in self.blocked_ports:
BlockPortCheck(t) ==
  /\ threads[t].fn = "block_port"
  /\ threads[t].pc = "check"
  /\ threads' = IF threads[t].port \notin DOMAIN blocked_ports
                THEN Moved(t, "iptables", {"not_blocked"})
                ELSE Moved(t, "returned", {})
  /\ UNCHANGED <<aesVars, field, detectorVars, xf, keygen, memo, caesar, caesar_prev,
                 blocked_ports, rules, notifications, calls, iptables, config>>

\* self._execute_iptables_block(port): the rule is appended, or the
\* exception takes the call to its except clause, which logs and returns.
ExecuteIptablesBlock(t) ==
  /\ threads[t].fn = "block_port"
  /\ threads[t].pc = "iptables"
  /\ CASE iptables = "present" ->
            /\ rules' = [rules EXCEPT ![threads[t].port] = @ + 1]
            /\ threads' = Moved(t, "record", {"rule"})
       [] iptables = "missing" ->
            /\ threads' = Moved(t, "returned", {"FileNotFoundError"})
            /\ UNCHANGED rules
       [] iptables = "failing" ->
            /\ threads' = Moved(t, "returned", {"CalledProcessError"})
            /\ UNCHANGED rules
  /\ UNCHANGED <<aesVars, field, detectorVars, xf, keygen, memo, caesar, caesar_prev,
                 blocked_ports, notifications, calls, iptables, config>>

\* self.blocked_ports[port] = {...}: time.time() gives every block_port
\* call its own 'blocked_at', here the number of the call.
RecordBlockedPort(t) ==
  /\ threads[t].fn = "block_port"
  /\ threads[t].pc = "record"
  /\ blocked_ports' =
       [port \in DOMAIN blocked_ports \cup {threads[t].port} |->
          IF port = threads[t].port
          THEN [blocked_at |-> threads[t].block, reason |-> "DDoS_Attack",
                auto_unblock |-> config.auto_unblock]
          ELSE blocked_ports[port]]
  /\ threads' = Moved(t, "notify", {"recorded"})
  /\ UNCHANGED <<aesVars, field, detectorVars, xf, keygen, memo, caesar, caesar_prev,
                 rules, notifications, calls, iptables, config>>

\* self._notify_port_change(port, 'BLOCKED', ...)
NotifyBlocked(t) ==
  /\ threads[t].fn = "block_port"
  /\ threads[t].pc = "notify"
  /\ notifications' = Append(notifications, <<threads[t].port, "BLOCKED">>)
  /\ threads' = Moved(t, "auto_unblock", {"notified"})
  /\ UNCHANGED <<aesVars, field, detectorVars, xf, keygen, memo, caesar, caesar_prev,
                 blocked_ports, rules, calls, iptables, config>>

\* if self.config['blocking']['auto_unblock']:
\*     Timer(unblock_time, self.unblock_port, args=[port]).start()
ScheduleUnblock(t) ==
  /\ threads[t].fn = "block_port"
  /\ threads[t].pc = "auto_unblock"
  /\ IF config.auto_unblock
     THEN LET timer == CHOOSE n \in 1..MaxCalls :
                         /\ threads[<<"timer", n>>].fn = "none"
                         /\ \A k \in 1..(n - 1) : threads[<<"timer", k>>].fn # "none"
          IN  threads' =
                [Moved(t, "returned", {"scheduled"}) EXCEPT ![<<"timer", timer>>] =
                   [fn |-> "Timer", pc |-> "waiting", port |-> threads[t].port,
                    did |-> {}, block |-> threads[t].block, deleted |-> 0]]
     ELSE threads' = Moved(t, "returned", {})
  /\ UNCHANGED <<aesVars, field, detectorVars, xf, keygen, memo, caesar, caesar_prev,
                 blocked_ports, rules, notifications, calls, iptables, config>>

\* The dashboard calls unblock_port(port).
CallUnblockPort(t) ==
  /\ t \in Callers
  /\ threads[t].fn = "none"
  /\ calls < MaxCalls
  /\ calls' = calls + 1
  /\ \E port \in Ports :
       threads' = [threads EXCEPT ![t] =
                     [fn |-> "unblock_port", pc |-> "check", port |-> port, did |-> {},
                      block |-> 0, deleted |-> 0]]
  /\ UNCHANGED <<aesVars, field, detectorVars, xf, keygen, memo, caesar, caesar_prev,
                 blocked_ports, rules, notifications, iptables, config>>

\* The interval of a Timer has passed: its thread calls unblock_port(port).
TimerFires(t) ==
  /\ threads[t].fn = "Timer"
  /\ threads[t].pc = "waiting"
  /\ threads' = [threads EXCEPT ![t] = [@ EXCEPT !.fn = "unblock_port", !.pc = "check"]]
  /\ UNCHANGED <<aesVars, field, detectorVars, xf, keygen, memo, caesar, caesar_prev,
                 blocked_ports, rules, notifications, calls, iptables, config>>

\* if port in self.blocked_ports:
UnblockPortCheck(t) ==
  /\ threads[t].fn = "unblock_port"
  /\ threads[t].pc = "check"
  /\ threads' = IF threads[t].port \in DOMAIN blocked_ports
                THEN Moved(t, "iptables", {"blocked"})
                ELSE Moved(t, "returned", {})
  /\ UNCHANGED <<aesVars, field, detectorVars, xf, keygen, memo, caesar, caesar_prev,
                 blocked_ports, rules, notifications, calls, iptables, config>>

\* self._execute_iptables_unblock(port): one rule of the port is deleted;
\* iptables fails when there is none.  Both exceptions are caught and
\* logged, and the call goes on.
ExecuteIptablesUnblock(t) ==
  /\ threads[t].fn = "unblock_port"
  /\ threads[t].pc = "iptables"
  /\ CASE iptables = "present" /\ rules[threads[t].port] > 0 ->
            /\ rules' = [rules EXCEPT ![threads[t].port] = @ - 1]
            /\ threads' = Moved(t, "delete", {"rule"})
       [] iptables = "present" /\ rules[threads[t].port] = 0 ->
            /\ threads' = Moved(t, "delete", {"CalledProcessError"})
            /\ UNCHANGED rules
       [] iptables = "missing" ->
            /\ threads' = Moved(t, "delete", {"FileNotFoundError"})
            /\ UNCHANGED rules
       [] iptables = "failing" ->
            /\ threads' = Moved(t, "delete", {"CalledProcessError"})
            /\ UNCHANGED rules
  /\ UNCHANGED <<aesVars, field, detectorVars, xf, keygen, memo, caesar, caesar_prev,
                 blocked_ports, notifications, calls, iptables, config>>

\* del self.blocked_ports[port]: KeyError when another thread has deleted
\* the key since the check.
DeleteBlockedPort(t) ==
  /\ threads[t].fn = "unblock_port"
  /\ threads[t].pc = "delete"
  /\ IF threads[t].port \in DOMAIN blocked_ports
     THEN /\ blocked_ports' = Deleted(blocked_ports, threads[t].port)
          /\ threads' = [Moved(t, "notify", {"deleted"}) EXCEPT
                           ![t].deleted = blocked_ports[threads[t].port].blocked_at]
     ELSE /\ threads' = Moved(t, "raised", {"KeyError"})
          /\ UNCHANGED blocked_ports
  /\ UNCHANGED <<aesVars, field, detectorVars, xf, keygen, memo, caesar, caesar_prev,
                 rules, notifications, calls, iptables, config>>

\* self._notify_port_change(port, 'ACTIVE', ...)
NotifyActive(t) ==
  /\ threads[t].fn = "unblock_port"
  /\ threads[t].pc = "notify"
  /\ notifications' = Append(notifications, <<threads[t].port, "ACTIVE">>)
  /\ threads' = Moved(t, "returned", {"notified"})
  /\ UNCHANGED <<aesVars, field, detectorVars, xf, keygen, memo, caesar, caesar_prev,
                 blocked_ports, rules, calls, iptables, config>>

\* The detector or the dashboard goes on after its call.
CallerReturns(t) ==
  /\ t \in Callers
  /\ threads[t].pc \in {"returned", "raised"}
  /\ threads' = [threads EXCEPT ![t] = NoFrame]
  /\ UNCHANGED <<aesVars, field, detectorVars, xf, keygen, memo, caesar, caesar_prev,
                 blocked_ports, rules, notifications, calls, iptables, config>>

PortManagerNext ==
  \/ \E t \in Callers : CallBlockPort(t)
  \/ \E t \in Threads : BlockPortCheck(t)
  \/ \E t \in Threads : ExecuteIptablesBlock(t)
  \/ \E t \in Threads : RecordBlockedPort(t)
  \/ \E t \in Threads : NotifyBlocked(t)
  \/ \E t \in Threads : ScheduleUnblock(t)
  \/ \E t \in Callers : CallUnblockPort(t)
  \/ \E t \in TimerThreads : TimerFires(t)
  \/ \E t \in Threads : UnblockPortCheck(t)
  \/ \E t \in Threads : ExecuteIptablesUnblock(t)
  \/ \E t \in Threads : DeleteBlockedPort(t)
  \/ \E t \in Threads : NotifyActive(t)
  \/ \E t \in Callers : CallerReturns(t)

SpecPortManager == PortManagerInit /\ [][PortManagerNext]_vars

(***************************************************************************)
(* trabalho_02/src/multi_port_detector.py: MultiPortDetector given packets *)
(* by the capture, one packet_callback at a time in the detector thread.   *)
(* Its block_port call runs statement by statement, interleaved with the   *)
(* Timer threads that PortManager has started.                             *)
(***************************************************************************)
MaxPackets == 4
MaxTime == 2

Detector == <<"detector", 0>>

\* The source addresses of the packets, and a destination port that is not
\* in config['detection']['ports'].
SourceIps == {"127.0.0.1", "10.0.0.1", "10.0.0.2"}

UnmonitoredPort == FirstPort + MaxPorts

\* The config that PortManager and MultiPortDetector are constructed with:
\* config['blocking'] and config['detection'], the 'max_requests' of each
\* port of config['detection']['ports'].
DetectorConfigs ==
  {[auto_unblock |-> a, whitelist_ips |-> {"127.0.0.1"}, time_window |-> 1,
    max_requests |-> [port \in Ports |-> port - FirstPort + 1]] : a \in BOOLEAN}

monitored_ports == DOMAIN config.max_requests

\* Mutant: no address is whitelisted.
is_whitelisted_nobody(ip_address) == FALSE

is_whitelisted(ip_address) == ip_address \in config.whitelist_ips

\* dict[key] = value
Put(dict, key, value) ==
  [k \in DOMAIN dict \cup {key} |-> IF k = key THEN value ELSE dict[k]]

\* defaultdict[key]
Item(dict, key, default) == IF key \in DOMAIN dict THEN dict[key] ELSE default

\* The value of a new key of port_statistics.
NoStatistics == [total_packets |-> 0, unique_ips |-> {}, attack_detected |-> FALSE]

\* while deque and current_time - deque[0] > self.time_window: deque.popleft()
RECURSIVE cleanup_old_timestamps(_, _)
cleanup_old_timestamps(deque, current_time) ==
  IF deque # << >> /\ current_time - deque[1] > config.time_window
  THEN cleanup_old_timestamps(Tail(deque), current_time)
  ELSE deque

\* stats['total_packets'] += 1; stats['unique_ips'].add(source_ip)
update_port_statistics(statistics, port, source_ip) ==
  Put(statistics, port,
      [Item(statistics, port, NoStatistics) EXCEPT
         !.total_packets = @ + 1, !.unique_ips = @ \cup {source_ip}])

\* The entry that _update_port_dashboard_status and _update_port_status
\* write to port_status[port].
update_port_status(statistics, port) ==
  [status |-> IF port \in DOMAIN blocked_ports THEN "BLOCKED" ELSE "ACTIVE",
   total_packets |-> statistics[port].total_packets,
   unique_ips |-> Cardinality(statistics[port].unique_ips),
   attack_detected |-> statistics[port].attack_detected]

\* MultiPortDetector and PortManager after construction, on any host.
DetectorInit ==
  /\ Idle
  /\ xf = NoXf
  /\ keygen = NoKeygen
  /\ memo = NoMemo
  /\ caesar = NoCaesar
  /\ caesar_prev = NoCaesar
  /\ field = NoField
  /\ NoDetector
  /\ blocked_ports = << >>
  /\ rules = [port \in Ports |-> 0]
  /\ notifications = << >>
  /\ threads = [t \in Threads |-> NoFrame]
  /\ calls = 0
  /\ iptables \in {"present", "missing", "failing"}
  /\ config \in DetectorConfigs

\* packet_callback(packet) for a TCP or UDP packet from src_ip to dst_port,
\* up to its call of port_manager.block_port or, without one, to its return.
PacketCallback ==
  /\ threads[Detector].fn = "none"
  /\ packets < MaxPackets
  /\ calls < MaxCalls
  /\ \E src_ip \in SourceIps, dst_port \in Ports \cup {UnmonitoredPort} :
       LET port_history == Item(port_ip_history, dst_port, << >>)
           deque == cleanup_old_timestamps(
                      Append(Item(port_history, src_ip, << >>), clock), clock)
           statistics == update_port_statistics(port_statistics, dst_port, src_ip)
           packet_count == Len(deque)
           attacked == Put(statistics, dst_port,
                           [statistics[dst_port] EXCEPT !.attack_detected = TRUE])
       IN  /\ packets' = packets + 1
           /\ last_packet' = [src |-> src_ip, dport |-> dst_port]
           /\ IF dst_port \notin monitored_ports \/ is_whitelisted(src_ip)
              THEN UNCHANGED <<port_ip_history, port_statistics, port_status,
                               alerts, block_calls, threads, calls>>
              ELSE /\ port_ip_history' =
                        Put(port_ip_history, dst_port, Put(port_history, src_ip, deque))
                   /\ IF packet_count > config.max_requests[dst_port]
                      THEN /\ port_statistics' = attacked
                           /\ alerts' = Append(alerts, [ip |-> src_ip, port |-> dst_port,
                                                        packet_count |-> packet_count])
                           /\ IF dst_port \notin DOMAIN blocked_ports
                              THEN /\ port_status' =
                                        Put(port_status, dst_port,
                                            update_port_status(statistics, dst_port))
                                   /\ block_calls' = Append(block_calls, <<src_ip, dst_port>>)
                                   /\ calls' = calls + 1
                                   /\ threads' =
                                        [threads EXCEPT ![Detector] =
                                           [fn |-> "block_port", pc |-> "check",
                                            port |-> dst_port, did |-> {},
                                            block |-> calls + 1, deleted |-> 0]]
                              ELSE /\ port_status' =
                                        Put(port_status, dst_port,
                                            update_port_status(attacked, dst_port))
                                   /\ UNCHANGED <<block_calls, calls, threads>>
                      ELSE /\ port_statistics' = statistics
                           /\ port_status' =
                                Put(port_status, dst_port,
                                    update_port_status(statistics, dst_port))
                           /\ UNCHANGED <<alerts, block_calls, calls, threads>>
  /\ UNCHANGED <<aesVars, field, xf, keygen, memo, caesar, caesar_prev, clock,
                 blocked_ports, rules, notifications, iptables, config>>

\* block_port has returned to _handle_ddos_attack:
\* self._update_port_status(dst_port), and packet_callback returns.
UpdatePortStatus ==
  /\ threads[Detector].fn = "block_port"
  /\ threads[Detector].pc = "returned"
  /\ port_status' = Put(port_status, threads[Detector].port,
                        update_port_status(port_statistics, threads[Detector].port))
  /\ threads' = [threads EXCEPT ![Detector] = NoFrame]
  /\ UNCHANGED <<aesVars, field, xf, keygen, memo, caesar, caesar_prev,
                 port_ip_history, port_statistics, alerts, block_calls, clock,
                 packets, last_packet,
                 blocked_ports, rules, notifications, calls, iptables, config>>

\* time.time() advances.
Tick ==
  /\ clock < MaxTime
  /\ clock' = clock + 1
  /\ UNCHANGED <<aesVars, field, xf, keygen, memo, caesar, caesar_prev, portVars,
                 port_ip_history, port_statistics, port_status, alerts,
                 block_calls, packets, last_packet>>

DetectorNext ==
  \/ PacketCallback
  \/ UpdatePortStatus
  \/ Tick
  \/ \E t \in Threads : BlockPortCheck(t)
  \/ \E t \in Threads : ExecuteIptablesBlock(t)
  \/ \E t \in Threads : RecordBlockedPort(t)
  \/ \E t \in Threads : NotifyBlocked(t)
  \/ \E t \in Threads : ScheduleUnblock(t)
  \/ \E t \in TimerThreads : TimerFires(t)
  \/ \E t \in Threads : UnblockPortCheck(t)
  \/ \E t \in Threads : ExecuteIptablesUnblock(t)
  \/ \E t \in Threads : DeleteBlockedPort(t)
  \/ \E t \in Threads : NotifyActive(t)

SpecDetector == DetectorInit /\ [][DetectorNext]_vars

(***************************************************************************)
(* Properties.                                                             *)
(***************************************************************************)
ValidKeyLen(key) == Len(key) \in {16, 24, 32}

Standalone == ecb = NoEcb

\* C1: for every key of 16, 24 or 32 bytes and every 16-byte block,
\* decryption(encryption(block, key), key) returns exactly block.
C1_DecryptionInvertsEncryption ==
  ( /\ Standalone
    /\ call.op = "decryption"
    /\ Finished(call)
    /\ prev.op = "encryption"
    /\ ValidKeyLen(prev.key)
    /\ Len(prev.data) = 16 )
  => /\ call.pc = "returned"
     /\ call.data = prev.out
     /\ call.key = prev.key
     /\ call.out = prev.data

C1_Witness ==
  /\ Standalone
  /\ call.op = "decryption"
  /\ call.pc = "returned"
  /\ prev.op = "encryption"
  /\ Len(prev.key) = 32
  /\ prev.data = BytesOf(16, 1)
  /\ prev.out # prev.data

\* C2: encryption maps the FIPS-197 plaintext 00112233445566778899aabbccddeeff
\* to 69c4e0d86a7b0430d8cdb78070b4c55a under the 16-byte key 00 01 .. 0f, to
\* dda97ca4864cdfe06eaf70a0ec0d7191 under the 24-byte key 00 01 .. 17 and to
\* 8ea2b7ca516745bfeafc49904b496089 under the 32-byte key 00 01 .. 1f, and
\* decryption maps each ciphertext back to the plaintext under the same key.
KnownAnswers ==
  { <<KeyOf(16, 0), CipherText128>>,
    <<KeyOf(24, 0), CipherText192>>,
    <<KeyOf(32, 0), CipherText256>> }

C2_KnownAnswers ==
  \A ka \in KnownAnswers :
    /\ ( /\ call.op = "encryption"
         /\ Finished(call)
         /\ call.data = BytesOf(16, 0)
         /\ call.key = ka[1] )
       => (call.pc = "returned" /\ call.out = ka[2])
    /\ ( /\ call.op = "decryption"
         /\ Finished(call)
         /\ call.data = ka[2]
         /\ call.key = ka[1] )
       => (call.pc = "returned" /\ call.out = BytesOf(16, 0))

C2_Witness ==
  /\ Standalone
  /\ prev = NoPrev
  /\ call.op = "decryption"
  /\ call.pc = "returned"
  /\ call.data = CipherText192
  /\ call.key = KeyOf(24, 0)

\* C3: for every valid key and every buffer of one or more whole 16-byte
\* blocks, ecb_decryption(ecb_encryption(buffer, key), key) returns exactly
\* buffer.
C3_EcbRoundTrip ==
  ( /\ ecb.op = "ecb_decryption"
    /\ Finished(ecb)
    /\ prev.op = "ecb_encryption"
    /\ ValidKeyLen(prev.key)
    /\ Len(prev.data) >= 16
    /\ Len(prev.data) % 16 = 0 )
  => /\ ecb.pc = "returned"
     /\ ecb.buffer = prev.out
     /\ ecb.key = prev.key
     /\ ecb.out = prev.data

C3_Witness ==
  /\ ecb.op = "ecb_decryption"
  /\ ecb.pc = "returned"
  /\ prev.op = "ecb_encryption"
  /\ Len(prev.key) = 24
  /\ prev.data = BytesOf(32, 1)
  /\ prev.out # prev.data

\* C4: ecb_encryption of n bytes returns exactly 16 * floor(n / 16) bytes;
\* output block j is what encryption, called on input block j alone with the
\* key, returned, so the blocks are independent of each other and the trailing
\* n mod 16 bytes reach no call; the same for ecb_decryption with decryption.
BlockAt(seq, j) == SubSeq(seq, 16 * (j - 1) + 1, 16 * j)

C4_EcbBlockwise ==
  ecb.op # "none" =>
    /\ ecb.j <= Len(ecb.buffer) \div 16
    /\ Len(ecb.calls) = ecb.j
    /\ Len(ecb.blocks) = 16 * ecb.j
    /\ \A j \in 1..ecb.j :
         /\ ecb.calls[j][1] = BlockAt(ecb.buffer, j)
         /\ ecb.calls[j][2] = BlockAt(ecb.blocks, j)
    /\ ecb.pc = "call" =>
         /\ call.op = (IF ecb.op = "ecb_encryption" THEN "encryption" ELSE "decryption")
         /\ call.data = BlockAt(ecb.buffer, ecb.j + 1)
         /\ call.key = ecb.key
    /\ ecb.pc = "returned" =>
         /\ ecb.j = Len(ecb.buffer) \div 16
         /\ ecb.out = ecb.blocks
         /\ Len(ecb.out) = 16 * (Len(ecb.buffer) \div 16)

C4_Witness ==
  /\ ecb.op = "ecb_encryption"
  /\ ecb.pc = "returned"
  /\ Len(ecb.buffer) = 37
  /\ Len(ecb.out) = 32
  /\ ecb.calls[2][1] = BlockAt(ecb.buffer, 2)
  /\ ecb.calls[2][2] = BlockAt(ecb.out, 2)
  /\ BlockAt(ecb.out, 2) # BlockAt(ecb.buffer, 2)

\* C5: encryption and decryption called with a key whose length is not 16, 24
\* or 32 bytes raise before the state is built, before key expansion and
\* before any round transformation; no output is produced.
C5_InvalidKeyFailsFirst ==
  (call.op # "none" /\ ~ValidKeyLen(call.key)) =>
    /\ call.pc \in {"number_rounds", "raised"}
    /\ call.pc = "raised" => call.err = "KeyError"
    /\ call.steps = <<>>
    /\ call.state = <<>>
    /\ call.key_schedule = <<>>
    /\ call.out = <<>>

C5_Witness ==
  /\ Standalone
  /\ call.op = "decryption"
  /\ call.pc = "raised"
  /\ call.err = "KeyError"
  /\ Len(call.key) = 17
  /\ call.data = CipherText128
  /\ call.steps = <<>>

\* C6: ecb_encryption and ecb_decryption fail whenever the key length is not
\* 16, 24 or 32 bytes, for every buffer of any length, including buffers
\* shorter than one block; they never return a result for an invalid key.
C6_EcbInvalidKeyNeverReturns ==
  (ecb.op # "none" /\ ~ValidKeyLen(ecb.key)) => ecb.pc # "returned"

\* C7: encryption and decryption fail, returning no output, for every input
\* block whose length is not exactly 16 bytes, with any valid key.
C7_WrongBlockLengthNeverReturns ==
  (call.op # "none" /\ ValidKeyLen(call.key) /\ Len(call.data) # 16)
    => call.pc # "returned"

\* C8: rcon(j) raises for every integer j outside 1..10 (j > 10 as well as
\* j <= 0); it never returns a value obtained by wrapping around the table.
C8_RconOutOfRangeRaises ==
  (rcon_call.pc # "idle" /\ rcon_call.value \notin 1..10)
    => (rcon_call.pc = "raised" /\ rcon_call.result.err = "IndexError")

\* C9: for every 16-byte input b, state_to_bytes(bytes_to_state(b)) = b.
C9_StateRoundTrip ==
  (conv.pc = "state_to_bytes" /\ Len(conv.data) = 16)
    => conv.bytes = Ok(conv.data)

C9_Witness ==
  /\ conv.pc = "state_to_bytes"
  /\ conv.data = BytesOf(16, 1)
  /\ Len(conv.state) = 4
  /\ conv.bytes.val = conv.data

\* C10: for every 16-byte input, bytes_to_state returns a 4x4 matrix with
\* state[row][col] = input[row + 4*col] for all row, col in 0..3; for
\* bytes(range(16)) that is [[0,4,8,12],[1,5,9,13],[2,6,10,14],[3,7,11,15]].
C10_ColumnMajorState ==
  (conv.pc # "idle" /\ Len(conv.data) = 16) =>
    /\ Len(conv.state) = 4
    /\ \A row \in 0..3 :
         /\ Len(conv.state[row + 1]) = 4
         /\ \A col \in 0..3 :
              conv.state[row + 1][col + 1] = conv.data[row + 4 * col + 1]
    /\ conv.data = Range16 =>
         conv.state = << <<0, 4, 8, 12>>, <<1, 5, 9, 13>>,
                         <<2, 6, 10, 14>>, <<3, 7, 11, 15>> >>

\* C11: shift_rows followed by inv_shift_rows gives back every 4x4 state.
C11_ShiftRowsRoundTrip ==
  xf.pc = "inv_shift_rows" =>
    /\ xf.back.err = "none"
    /\ xf.back.val = xf.state

C11_Witness ==
  /\ xf.pc = "inv_shift_rows"
  /\ xf.out.val # xf.state
  /\ xf.back.val = xf.state

\* C12: mix_columns followed by inv_mix_columns gives back every 4x4 state,
\* and inv_mix_column(mix_column(col)) = col for each of its columns.
C12_MixColumnsRoundTrip ==
  xf.pc = "inv_mix_columns" =>
    /\ xf.back.val = xf.state
    /\ \A i \in 1..Len(xf.state) :
         inv_mix_column(xf.out.val[i]) = xf.state[i]

C12_Witness ==
  /\ xf.pc = "inv_mix_columns"
  /\ xf.out.val # xf.state
  /\ xf.back.val = xf.state

\* The byte values of a state.
Cells(state) == {state[i][j] : i \in 1..Len(state), j \in 1..4}

\* C13: sub_bytes followed by inv_sub_bytes gives back every 4x4 state:
\* INV_S_BOX[AES_S_BOX[b]] = b for every byte b the state holds, and both
\* tables map bytes to bytes, the 16 bytes of a state of distinct bytes to 16
\* distinct bytes.
C13_SubBytesRoundTrip ==
  xf.pc = "inv_sub_bytes" =>
    /\ xf.back.val = xf.state
    /\ \A b \in Cells(xf.state) : INV_S_BOX[AES_S_BOX[b + 1] + 1] = b
    /\ Cells(xf.out.val) \subseteq 0..255
    /\ Cells(xf.back.val) \subseteq 0..255
    /\ Cardinality(Cells(xf.out.val)) = Cardinality(Cells(xf.state))

C13_Witness ==
  /\ xf.pc = "inv_sub_bytes"
  /\ 255 \in Cells(xf.state)
  /\ xf.out.val # xf.state
  /\ xf.back.val = xf.state

\* C14: generate_aes_key(size) returns exactly size bytes when size is 16, 24
\* or 32, and raises ValueError without a key for every other size.
C14_GenerateAesKey ==
  keygen.pc # "idle" =>
    IF keygen.key_size \in {16, 24, 32}
    THEN /\ keygen.pc = "returned"
         /\ keygen.result.err = "none"
         /\ Len(keygen.result.val) = keygen.key_size
    ELSE /\ keygen.pc = "raised"
         /\ keygen.result.err = "ValueError"
         /\ keygen.result.val = <<>>

C14_Witness ==
  /\ keygen.pc = "returned"
  /\ keygen.key_size = 24
  /\ Len(keygen.result.val) = 24

\* C16: shift_rows moves state[(i + r) mod 4][r] to state[i][r] for every
\* list i and position r, so that it turns [[1,2,3,4],[5,6,7,8],[9,10,11,12],
\* [13,14,15,16]] into [[1,6,11,16],[5,10,15,4],[9,14,3,8],[13,2,7,12]].
C16_ShiftRowsPositions ==
  xf.pc = "shift_rows" =>
    /\ xf.out.err = "none"
    /\ \A i \in 0..3 : \A r \in 0..3 :
         xf.out.val[i + 1][r + 1] = xf.state[((i + r) % 4) + 1][r + 1]
    /\ xf.state = ShiftRowsState => xf.out.val = ShiftRowsExpected

C16_Witness ==
  /\ xf.pc = "shift_rows"
  /\ xf.state = ShiftRowsState
  /\ xf.out.val = ShiftRowsExpected

\* A finished call that was given the arguments of the remembered call has
\* its outcome.
SameOutcome ==
  (Finished(call) /\ memo.op = call.op /\ memo.data = call.data /\ memo.key = call.key)
    => (call.out = memo.out /\ call.err = memo.err /\ call.pc = (IF memo.err = "none" THEN "returned" ELSE "raised"))

\* No statement of a call changes the block or the key it was given.
ArgumentsKept ==
  (call.op # "none" /\ call'.op = call.op)
    => (call'.data = call.data /\ call'.key = call.key)

ValidShift(shift) == 0 - 25 <= shift /\ shift <= 25

Ascii(message) == \A i \in 1..Len(message) : message[i] < 128

\* C17: encrypt and decrypt raise ValueError for every shift below -25 or
\* above 25 and succeed for every shift in -25..25, shift 0 returning the
\* message unchanged.
C17_ShiftRange ==
  caesar.op \in {"encrypt", "decrypt"} =>
    IF ValidShift(caesar.shift)
    THEN /\ caesar.result.err = "none"
         /\ caesar.shift = 0 => caesar.result.val = caesar.message
    ELSE caesar.result.err = "ValueError"

\* C18: for an ASCII message m and a shift s in -25..25, decrypt(m, -s)
\* returns what decrypt(m, s) returned, and decrypt(encrypt(m, |s|), s)
\* returns m; encrypt turns lowercase letters into lowercase letters,
\* uppercase into uppercase, and leaves every other character as it is.
C18_DecryptNormalizesSign ==
  /\ ( /\ caesar.op = "decrypt"
       /\ caesar_prev.op = "decrypt"
       /\ Ascii(caesar.message)
       /\ ValidShift(caesar.shift) )
     => ( /\ caesar.result.err = "none"
          /\ caesar.result = caesar_prev.result )
  /\ ( /\ caesar.op = "decrypt"
       /\ caesar_prev.op = "encrypt"
       /\ Ascii(caesar_prev.message)
       /\ caesar_prev.shift = abs(caesar.shift) )
     => ( /\ caesar.result.val = caesar_prev.message
          /\ \A i \in 1..Len(caesar_prev.message) :
               LET c == caesar_prev.message[i]
                   e == caesar_prev.result.val[i]
               IN  /\ c \in 97..122 => e \in 97..122
                   /\ c \in 65..90 => e \in 65..90
                   /\ c \notin (65..90) \cup (97..122) => e = c )

C18_Witness ==
  /\ caesar.op = "decrypt"
  /\ caesar_prev.op = "encrypt"
  /\ caesar.shift = 0 - 17
  /\ caesar_prev.shift = 17
  /\ caesar_prev.message = TestMessage
  /\ caesar_prev.result.val = TestCiphertext
  /\ caesar.result.val = TestMessage

\* C19: brute_force(c) returns exactly 26 candidates, the one at index k
\* being decrypt(c, k); an ASCII message encrypted with a shift in -25..25
\* is among the candidates for its ciphertext.
C19_BruteForce ==
  caesar.op = "brute_force" =>
    /\ caesar.result.err = "none"
    /\ Len(caesar.result.val) = 26
    /\ \A k \in 0..25 : caesar.result.val[k + 1] = decrypt(caesar.message, k).val
    /\ (caesar_prev.op = "encrypt" /\ Ascii(caesar_prev.message))
         => \E k \in 0..25 : caesar.result.val[k + 1] = caesar_prev.message

C19_Witness ==
  /\ caesar.op = "brute_force"
  /\ caesar_prev.op = "encrypt"
  /\ caesar_prev.shift = 0 - 3
  /\ caesar_prev.message = <<97, 90>>
  /\ caesar.result.val[24] = caesar_prev.message
  /\ caesar.result.val[1] # caesar_prev.message

\* C20: on a host without iptables, a block_port call that found its port
\* not blocked has, when it returns, recorded the port in blocked_ports,
\* notified the callback with 'BLOCKED' and, with auto_unblock enabled,
\* scheduled the unblock.
C20_BlockSimulatedWithoutIptables ==
  \A t \in Callers :
    ( /\ iptables = "missing"
      /\ threads[t].fn = "block_port"
      /\ threads[t].pc = "returned"
      /\ "not_blocked" \in threads[t].did )
    => ( /\ "recorded" \in threads[t].did
         /\ "notified" \in threads[t].did
         /\ config.auto_unblock => "scheduled" \in threads[t].did )

\* Nr for a key of 16, 24 or 32 bytes.
Nr(key) == CASE Len(key) = 16 -> 10 [] Len(key) = 24 -> 12 [] Len(key) = 32 -> 14

\* The round arguments of the add_round_key calls made so far.
RoundsUsed == {call.steps[n][2] : n \in {k \in 1..Len(call.steps) : call.steps[k][1] = "add_round_key"}}

\* C22: for a key of 16, 24 or 32 bytes the key schedule that key_expansion
\* returned has Nr + 1 round keys of 4 words of 4 bytes, the words of w in
\* the order they were generated, Nr being 10, 12, 14; every round that
\* encryption and decryption pass to add_round_key is an index 0..Nr of it,
\* and on a 16-byte block no add_round_key raises.
C22_KeyScheduleShape ==
  (ValidKeyLen(call.key) /\ call.pc \notin {"idle", "number_rounds", "bytes_to_state",
                                            "key_expansion", "key_expansion_loop"})
    => /\ call.number_rounds = Nr(call.key)
       /\ Len(call.w) = 4 * (Nr(call.key) + 1)
       /\ Len(call.key_schedule) = Nr(call.key) + 1
       /\ \A r \in 1..Len(call.key_schedule) :
            /\ Len(call.key_schedule[r]) = 4
            /\ \A j \in 1..4 :
                 /\ Len(call.key_schedule[r][j]) = 4
                 /\ call.key_schedule[r][j] = call.w[4 * (r - 1) + j]
       /\ RoundsUsed \subseteq 0..(Len(call.key_schedule) - 1)
       /\ Len(call.data) = AES_BLOCK_SIZE => call.pc # "raised"
       /\ call.pc = "returned" => RoundsUsed = 0..Nr(call.key)

C22_Witness ==
  /\ call.op = "decryption"
  /\ call.pc = "returned"
  /\ Len(call.key) = 24
  /\ Len(call.key_schedule) = 13
  /\ RoundsUsed = 0..12

(***************************************************************************)
(* FIPS-197 section 4.2: the product of two bytes in GF(2^8) is the        *)
(* product of their polynomials over GF(2), reduced modulo                 *)
(* x^8 + x^4 + x^3 + x + 1.                                                *)
(***************************************************************************)
RECURSIVE PolynomialProduct(_, _)
PolynomialProduct(a, b) ==
  IF b = 0 THEN 0
  ELSE Xor(IF b % 2 = 1 THEN a ELSE 0, 2 * PolynomialProduct(a, b \div 2))

\* p modulo x^8 + x^4 + x^3 + x + 1 (283), for p of degree at most bit.
RECURSIVE PolynomialModulo(_, _)
PolynomialModulo(p, bit) ==
  IF bit < 8 THEN p
  ELSE PolynomialModulo(IF (p \div (2 ^ bit)) % 2 = 1
                        THEN Xor(p, 283 * (2 ^ (bit - 8))) ELSE p, bit - 1)

FieldProduct(a, b) == PolynomialModulo(PolynomialProduct(a, b), 14)

RECURSIVE FieldPower(_, _)
FieldPower(a, n) == IF n = 0 THEN 1 ELSE FieldProduct(a, FieldPower(a, n - 1))

\* FIPS-197 section 5.2: SubWord, RotWord, Rcon and the xor of two words.
SubWord(word) == [k \in 1..4 |-> AES_S_BOX[word[k] + 1]]

RotWord(word) == <<word[2], word[3], word[4], word[1]>>

Rcon(j) == <<FieldPower(2, j - 1), 0, 0, 0>>

WordXor(a, b) == [k \in 1..4 |-> Xor(a[k], b[k])]

\* The word w[i] (i counted from 0) as FIPS-197 defines it from the key and
\* the words before it.
ExpandedWord(w, key, i) ==
  LET Nk == Len(key) \div 4
      temp == IF i % Nk = 0 THEN WordXor(SubWord(RotWord(w[i])), Rcon(i \div Nk))
              ELSE IF Nk > 6 /\ i % Nk = 4 THEN SubWord(w[i])
              ELSE w[i]
  IN  IF i < Nk THEN <<key[4 * i + 1], key[4 * i + 2], key[4 * i + 3], key[4 * i + 4]>>
      ELSE WordXor(w[i - Nk + 1], temp)

\* C23: the words of key_expansion satisfy the recurrence of FIPS-197:
\* w[i] is key[4i..4i+3] for i < Nk, and w[i - Nk] xor temp afterwards, temp
\* being SubWord(RotWord(w[i-1])) xor Rcon(i/Nk) when i mod Nk = 0,
\* SubWord(w[i-1]) when Nk > 6 and i mod Nk = 4, and w[i-1] otherwise.  The
\* word just appended is checked in every iteration, and all of them when
\* key_expansion returns.
C23_KeyExpansionRecurrence ==
  (ValidKeyLen(call.key) /\ call.w # <<>>)
    => /\ call.w[Len(call.w)] = ExpandedWord(call.w, call.key, Len(call.w) - 1)
       /\ call.pc = "add_round_key_first"
            => \A i \in 0..(Len(call.w) - 1) : call.w[i + 1] = ExpandedWord(call.w, call.key, i)

C23_Witness ==
  /\ call.pc = "add_round_key_first"
  /\ Len(call.key) = 32
  /\ Len(call.w) = 60
  /\ call.w[13] = WordXor(call.w[5], SubWord(call.w[12]))
  /\ call.w[13] # WordXor(call.w[5], call.w[12])

\* A call with a valid key that raised inside key_expansion.
RaisedInKeyExpansion ==
  /\ call.pc = "raised"
  /\ call.steps # <<>>
  /\ call.steps[Len(call.steps)][1] = "key_expansion"

\* C28: for a key of 16, 24 or 32 bytes key_expansion calls rcon with 1, 2,
\* 3, ... in turn, up to 10, 8 and 7, so that no index is outside 1..10, no
\* round constant is read from a wrapped index, and key_expansion does not
\* raise.
C28_RconIndexes ==
  ValidKeyLen(call.key)
    => /\ \A n \in 1..Len(call.rcon_values) :
            /\ call.rcon_values[n] = n
            /\ call.rcon_values[n] \in 1..10
       /\ Len(call.rcon_values) <= (CASE Len(call.key) = 16 -> 10
                                       [] Len(call.key) = 24 -> 8
                                       [] Len(call.key) = 32 -> 7)
       /\ ~RaisedInKeyExpansion

C28_Witness ==
  /\ call.pc = "add_round_key_first"
  /\ Len(call.key) = 16
  /\ call.rcon_values = <<1, 2, 3, 4, 5, 6, 7, 8, 9, 10>>

\* The log of a transformation that takes no round.
Step(name) == <<name, 0 - 1>>

\* SubBytes, ShiftRows, MixColumns, AddRoundKey(round) for round = from..to.
RECURSIVE EncryptionRounds(_, _)
EncryptionRounds(from, to) ==
  IF from > to THEN <<>>
  ELSE <<Step("sub_bytes"), Step("shift_rows"), Step("mix_columns"),
         <<"add_round_key", from>>>> \o EncryptionRounds(from + 1, to)

\* The steps of the cipher of FIPS-197 for n rounds, between the building
\* of the state and of the key schedule and the conversion to bytes.
CipherSteps(n) ==
  <<Step("bytes_to_state"), Step("key_expansion"), <<"add_round_key", 0>>>>
    \o EncryptionRounds(1, n - 1)
    \o <<Step("sub_bytes"), Step("shift_rows"), <<"add_round_key", n>>,
         Step("state_to_bytes")>>

\* InvShiftRows, InvSubBytes, AddRoundKey(round), InvMixColumns for
\* round = from down to to.
RECURSIVE DecryptionRounds(_, _)
DecryptionRounds(from, to) ==
  IF from < to THEN <<>>
  ELSE <<Step("inv_shift_rows"), Step("inv_sub_bytes"), <<"add_round_key", from>>,
         Step("inv_mix_columns")>> \o DecryptionRounds(from - 1, to)

InverseCipherSteps(n) ==
  <<Step("bytes_to_state"), Step("key_expansion"), <<"add_round_key", n>>>>
    \o DecryptionRounds(n - 1, 1)
    \o <<Step("inv_shift_rows"), Step("inv_sub_bytes"), <<"add_round_key", 0>>,
         Step("state_to_bytes")>>

IsPrefix(s, t) == Len(s) <= Len(t) /\ s = SubSeq(t, 1, Len(s))

\* The positions of the log where the transformation is name.
StepsNamed(name) == {k \in 1..Len(call.steps) : call.steps[k][1] = name}

\* C24: an encryption with a valid key runs AddRoundKey(0), then SubBytes,
\* ShiftRows, MixColumns, AddRoundKey(round) for round = 1..Nr-1, then
\* SubBytes, ShiftRows, AddRoundKey(Nr): at every moment its log is the
\* beginning of that sequence, and the whole of it when the call returns,
\* with MixColumns run Nr-1 times and each round key 0..Nr used once.
C24_EncryptionStepOrder ==
  (call.op = "encryption" /\ ValidKeyLen(call.key))
    => /\ IsPrefix(call.steps, CipherSteps(Nr(call.key)))
       /\ call.pc = "returned"
            => /\ call.steps = CipherSteps(Nr(call.key))
               /\ Cardinality(StepsNamed("mix_columns")) = Nr(call.key) - 1
               /\ Cardinality(StepsNamed("add_round_key")) = Nr(call.key) + 1
               /\ \A k \in StepsNamed("mix_columns") :
                    /\ call.steps[k + 1][1] = "add_round_key"
                    /\ call.steps[k + 1][2] < Nr(call.key)

C24_Witness ==
  /\ call.op = "encryption"
  /\ call.pc = "returned"
  /\ Len(call.key) = 24
  /\ Len(call.steps) = 4 * 12 + 3
  /\ call.steps[Len(call.steps) - 1] = <<"add_round_key", 12>>
  /\ call.steps[Len(call.steps) - 2] = Step("shift_rows")

\* C25: a decryption with a valid key runs AddRoundKey(Nr), then
\* InvShiftRows, InvSubBytes, AddRoundKey(round), InvMixColumns for round =
\* Nr-1 down to 1, then InvShiftRows, InvSubBytes, AddRoundKey(0): at every
\* moment its log is the beginning of that sequence, and the whole of it when
\* the call returns, with each round key used once and InvMixColumns run
\* Nr-1 times, each time right after an AddRoundKey of a round above 0.
C25_DecryptionStepOrder ==
  (call.op = "decryption" /\ ValidKeyLen(call.key))
    => /\ IsPrefix(call.steps, InverseCipherSteps(Nr(call.key)))
       /\ \A k \in StepsNamed("inv_mix_columns") :
            /\ call.steps[k - 1][1] = "add_round_key"
            /\ call.steps[k - 1][2] > 0
       /\ call.pc = "returned"
            => /\ call.steps = InverseCipherSteps(Nr(call.key))
               /\ Cardinality(StepsNamed("inv_mix_columns")) = Nr(call.key) - 1
               /\ Cardinality(StepsNamed("add_round_key")) = Nr(call.key) + 1

C25_Witness ==
  /\ call.op = "decryption"
  /\ call.pc = "returned"
  /\ Len(call.key) = 32
  /\ Len(call.steps) = 4 * 14 + 3
  /\ call.steps[4] = Step("inv_shift_rows")
  /\ call.steps[7] = Step("inv_mix_columns")
  /\ call.steps[Len(call.steps) - 1] = <<"add_round_key", 0>>

\* The product of the MixColumns matrix of FIPS-197 (rows 02 03 01 01,
\* 01 02 03 01, 01 01 02 03, 03 01 01 02) with a column.
MixColumnsProduct(col) ==
  LET Row(m0, m1, m2, m3) ==
        Xor(Xor(FieldProduct(m0, col[1]), FieldProduct(m1, col[2])),
            Xor(FieldProduct(m2, col[3]), FieldProduct(m3, col[4])))
  IN  <<Row(2, 3, 1, 1), Row(1, 2, 3, 1), Row(1, 1, 2, 3), Row(3, 1, 1, 2)>>

\* C26: mix_column replaces a column [c0, c1, c2, c3] by the product in
\* GF(2^8) of the MixColumns matrix with the column as it was before the
\* call, whatever the assignments have already written.
C26_MixColumnIsMatrixProduct ==
  xf.pc = "mix_columns" =>
    \A i \in 1..Len(xf.state) : xf.out.val[i] = MixColumnsProduct(xf.state[i])

C26_Witness ==
  /\ xf.pc = "mix_columns"
  /\ xf.state = ShiftRowsState
  /\ xf.out.val[1] = MixColumnsProduct(<<1, 2, 3, 4>>)
  /\ xf.out.val[1] = <<3, 4, 9, 10>>

\* C27: for every byte b, xtime(b), xtimes_09(b), xtimes_0b(b), xtimes_0d(b)
\* and xtimes_0e(b) are the products of b with 02, 09, 0B, 0D and 0E in
\* GF(2^8) modulo x^8 + x^4 + x^3 + x + 1, and are bytes.
C27_FieldMultipliers ==
  field.pc = "xtimes" =>
    /\ field.products = <<FieldProduct(field.b, 2), FieldProduct(field.b, 9),
                          FieldProduct(field.b, 11), FieldProduct(field.b, 13),
                          FieldProduct(field.b, 14)>>
    /\ \A n \in 1..5 : field.products[n] \in 0..255

\* {57} x {02} = {ae}, the example of FIPS-197 section 4.2.1.
C27_Witness ==
  /\ field.pc = "xtimes"
  /\ field.b = 87
  /\ field.products[1] = 174
  /\ field.products[5] = FieldProduct(87, 14)

\* The notifications of one port, in the order the callbacks received them.
NotificationsOf(port) ==
  SelectSeq(notifications, LAMBDA n : n[1] = port)

\* C29: under every interleaving of the block_port and unblock_port calls of
\* the detector, the dashboard and the Timer threads, no port has more than
\* one firewall rule, the notifications of a port alternate between
\* 'BLOCKED' and 'ACTIVE' starting with 'BLOCKED', and no call raises
\* KeyError because another thread removed the port's entry.
C29_BlockAndUnblockAreAtomic ==
  /\ \A port \in Ports : rules[port] <= 1
  /\ \A port \in Ports :
       \A n \in 1..Len(NotificationsOf(port)) :
         NotificationsOf(port)[n][2] = IF n % 2 = 1 THEN "BLOCKED" ELSE "ACTIVE"
  /\ \A t \in Threads : "KeyError" \notin threads[t].did

\* C30: once a caller's unblock_port has deleted the entry that a block_port
\* call recorded, the Timer that this block_port call started deletes no
\* entry of blocked_ports: it never unblocks a later block of the port.
C30_StaleTimerNeverUnblocks ==
  \A t \in TimerThreads : \A u \in Callers :
    ( /\ threads[t].fn # "none"
      /\ threads[u].fn = "unblock_port"
      /\ "deleted" \in threads[u].did
      /\ threads[u].deleted = threads[t].block )
    => "deleted" \notin threads[t].did

\* C21: a whitelisted address is in no deque of port_ip_history and in no
\* port's unique_ips, no alert and no block_port call was made for a packet
\* from it, and processing a packet from it changes neither the history,
\* the statistics (total_packets included) and the port status nor the
\* alerts sent and the block_port calls made.
C21_WhitelistedPacketsIgnored ==
  /\ [](\A ip \in config.whitelist_ips :
          /\ \A port \in DOMAIN port_ip_history : ip \notin DOMAIN port_ip_history[port]
          /\ \A port \in DOMAIN port_statistics : ip \notin port_statistics[port].unique_ips
          /\ \A n \in 1..Len(alerts) : alerts[n].ip # ip
          /\ \A n \in 1..Len(block_calls) : block_calls[n][1] # ip)
  /\ [][(packets' = packets + 1 /\ last_packet'.src \in config.whitelist_ips)
          => UNCHANGED <<port_ip_history, port_statistics, port_status, alerts,
                         block_calls, threads, calls>>]_vars

\* A whitelisted packet has just been ignored on a port that another
\* address has attacked and that is counted in the statistics.
C21_Witness ==
  /\ last_packet.src \in config.whitelist_ips
  /\ last_packet.dport \in DOMAIN port_statistics
  /\ port_statistics[last_packet.dport].attack_detected
  /\ port_statistics[last_packet.dport].total_packets = packets - 1
  /\ Len(alerts) >= 1
  /\ Len(block_calls) >= 1

====
